---------------------------- MODULE Spec2Model ----------------------------
(***************************************************************************)
(* Poll-mode driver of the STM32F4xx on-chip flash (stm32f4xx_flash.c,     *)
(* flash_regs.h, api/libflash.h): the sector/address map, the register     *)
(* sequences of lock/unlock, erase and program, read and sector copy.      *)
(*                                                                         *)
(* 32-bit registers and field masks are held as the set of their 1-bit     *)
(* positions (bit 31 does not fit the checker's integers); addresses and   *)
(* field values are integers.  Flash content is tracked at a finite set of *)
(* probe addresses per sector; a byte that is not tracked reads as Unk.    *)
(***************************************************************************)
EXTENDS Integers, Sequences, FiniteSets, TLC

VARIABLES
    cfg,      \* build configuration (autoconf.h), fixed for a run
    cr,       \* FLASH_CR, set of 1-bits
    sr,       \* FLASH_SR, set of 1-bits
    optcr,    \* FLASH_OPTCR, set of 1-bits
    keyr,     \* unlock sequencer of FLASH_KEYR:    0 idle, 1 KEY1 seen
    optkeyr,  \* unlock sequencer of FLASH_OPTKEYR: 0 idle, 1 OPTKEY1 seen
    flash,    \* content of the main array at the probe addresses
    buffer,   \* the caller's buffer handed to flash_read
    last,     \* the call that just returned: arguments, result, what it did
    nops,     \* erase, program, read and copy calls made so far
    nfaults,  \* hardware operations that failed so far
    dev,      \* device registration: CONFIG_WOOKEY, flash_device_desc_tab
    thr,      \* the callers of a stepwise run: the call each is in, what is
              \* left of it
    hw        \* the hardware operation in progress in a stepwise run, and
              \* the one that ended last

vars == <<cfg, cr, sr, optcr, keyr, optkeyr, flash, buffer, last, nops, nfaults,
          dev, thr, hw>>

-----------------------------------------------------------------------------
(* Build configurations: CONFIG_USR_DRV_FLASH_1M / _2M, _DUAL_BANK and the  *)
(* SoC family (CONFIG_STM32F429 / CONFIG_STM32F439, the only parts with two *)
(* banks): 1 MB single-bank, 1 MB dual-bank, 2 MB dual-bank.                *)

Cfg1MSingle     == [flash2M |-> FALSE, dualBank |-> FALSE, f42x |-> FALSE]
Cfg1MDual       == [flash2M |-> FALSE, dualBank |-> TRUE,  f42x |-> TRUE]
Cfg2M           == [flash2M |-> TRUE,  dualBank |-> TRUE,  f42x |-> TRUE]

Configs == {Cfg1MSingle, Cfg1MDual, Cfg2M}

\* #if (CONFIG_USR_DRV_FLASH_1M && !CONFIG_USR_DRV_FLASH_DUAL_BANK) || CONFIG_USR_DRV_FLASH_2M
Has8to11(c) == (~c.flash2M /\ ~c.dualBank) \/ c.flash2M

\* #if (CONFIG_USR_DRV_FLASH_1M && CONFIG_USR_DRV_FLASH_DUAL_BANK) || CONFIG_USR_DRV_FLASH_2M
Has12to19(c) == (~c.flash2M /\ c.dualBank) \/ c.flash2M

\* #if CONFIG_USR_DRV_FLASH_2M
Has20to23(c) == c.flash2M

-----------------------------------------------------------------------------
(* Sector boundaries of flash_regs.h, the header whose definitions are in   *)
(* force in stm32f4xx_flash.c (it is included last): index :> <<start,end>> *)

Sectors1MCommon ==
       0 :> << \H08000000, \H08003FFF >>
    @@ 1 :> << \H08004000, \H08007FFF >>
    @@ 2 :> << \H08008000, \H0800BFFF >>
    @@ 3 :> << \H0800C000, \H0800FFFF >>
    @@ 4 :> << \H08010000, \H0801FFFF >>
    @@ 5 :> << \H08020000, \H0803FFFF >>
    @@ 6 :> << \H08040000, \H0805FFFF >>
    @@ 7 :> << \H08060000, \H0807FFFF >>

Sectors1MDual ==
       12 :> << \H08080000, \H08083FFF >>
    @@ 13 :> << \H08084000, \H08087FFF >>
    @@ 14 :> << \H08088000, \H0808BFFF >>
    @@ 15 :> << \H0808C000, \H0808FFFF >>
    @@ 16 :> << \H08090000, \H0809FFFF >>
    @@ 17 :> << \H080A0000, \H080BFFFF >>
    @@ 18 :> << \H080C0000, \H080DFFFF >>
    @@ 19 :> << \H080E0000, \H080FFFFF >>

Sectors1MSingle ==
       8  :> << \H08080000, \H0809FFFF >>
    @@ 9  :> << \H080A0000, \H080BFFFF >>
    @@ 10 :> << \H080C0000, \H080DFFFF >>
    @@ 11 :> << \H080E0000, \H080FFFFF >>

Sectors2M ==
       0  :> << \H08000000, \H08003FFF >>
    @@ 1  :> << \H08004000, \H08007FFF >>
    @@ 2  :> << \H08008000, \H0800BFFF >>
    @@ 3  :> << \H0800C000, \H0800FFFF >>
    @@ 4  :> << \H08010000, \H0801FFFF >>
    @@ 5  :> << \H08020000, \H0803FFFF >>
    @@ 6  :> << \H08040000, \H0805FFFF >>
    @@ 7  :> << \H08060000, \H0807FFFF >>
    @@ 8  :> << \H08080000, \H0809FFFF >>
    @@ 9  :> << \H080A0000, \H080BFFFF >>
    @@ 10 :> << \H080C0000, \H080DFFFF >>
    @@ 11 :> << \H080E0000, \H080FFFFF >>
    @@ 12 :> << \H08100000, \H08083FFF >>
    @@ 13 :> << \H08104000, \H08107FFF >>
    @@ 14 :> << \H08108000, \H0810BFFF >>
    @@ 15 :> << \H0810C000, \H0810FFFF >>
    @@ 16 :> << \H08110000, \H0811FFFF >>
    @@ 17 :> << \H08120000, \H0813FFFF >>
    @@ 18 :> << \H08140000, \H0815FFFF >>
    @@ 19 :> << \H08160000, \H0817FFFF >>
    @@ 20 :> << \H08180000, \H0819FFFF >>
    @@ 21 :> << \H081A0000, \H081BFFFF >>
    @@ 22 :> << \H081C0000, \H081DFFFF >>
    @@ 23 :> << \H081E0000, \H081FFFFF >>

\* the table the preprocessor leaves defined in configuration c
SectorTable(c) ==
    IF c.flash2M THEN Sectors2M
    ELSE IF c.dualBank THEN Sectors1MCommon @@ Sectors1MDual
    ELSE Sectors1MCommon @@ Sectors1MSingle

\* FLASH_SECTOR_<i> and FLASH_SECTOR_<i>_END
FLASH_SECTOR(c, i)     == SectorTable(c)[i][1]
FLASH_SECTOR_END(c, i) == SectorTable(c)[i][2]

\* the sector indices of configuration c, and the last of them
SectorIds(c) == DOMAIN SectorTable(c)
LastSector(c) == IF c.flash2M THEN 23 ELSE IF c.dualBank THEN 19 ELSE 11

\* IS_IN_FLASH with the test against the last sector end left out
IS_IN_FLASH_lower_bound_only(c, addr) == addr >= FLASH_SECTOR(c, 0)

\* IS_IN_FLASH(addr), fully parenthesised (the value of the macro's text when
\* it is not combined with an operator at the place of use)
IS_IN_FLASH(c, addr) ==
    addr >= FLASH_SECTOR(c, 0) /\ addr <= FLASH_SECTOR_END(c, LastSector(c))

\* the expression  !IS_IN_FLASH(addr)  as the preprocessor expands it:
\*   !(addr >= FLASH_SECTOR_0) && (addr <= FLASH_SECTOR_<last>_END)
\* the macro body has no outer parentheses, so ! binds to its first operand
NOT_IS_IN_FLASH_unparenthesised(c, addr) ==
    ~(addr >= FLASH_SECTOR(c, 0)) /\ addr <= FLASH_SECTOR_END(c, LastSector(c))

\* FLASH_SECTOR_SIZE(sector): (FLASH_SECTOR_<i>_END - FLASH_SECTOR_<i>), a
\* uint32_t difference.  A difference below zero stands for the word with the
\* same 32-bit pattern (d + 2^32); no caller of the driver reaches that case.
FLASH_SECTOR_SIZE(c, i) == FLASH_SECTOR_END(c, i) - FLASH_SECTOR(c, i)

-----------------------------------------------------------------------------
(* Address/sector map: stm32f4xx_flash.c                                    *)

Range(s) == {s[k] : k \in 1..Len(s)}

\* the order of the else-if chain / case labels that configuration c compiles
SectorChain(c) ==
    <<0, 1, 2, 3, 4, 5, 6, 7>>
    \o (IF Has8to11(c)  THEN <<8, 9, 10, 11>> ELSE <<>>)
    \o (IF Has12to19(c) THEN <<12, 13, 14, 15, 16, 17, 18, 19>> ELSE <<>>)
    \o (IF Has20to23(c) THEN <<20, 21, 22, 23>> ELSE <<>>)

\* is_sector_start without the case label of the last sector
is_sector_start_without_last_label(c, addr) ==
    \E i \in Range(SectorChain(c)) \ {LastSector(c)} : addr = FLASH_SECTOR(c, i)

is_sector_start(c, addr) ==
    \E i \in Range(SectorChain(c)) : addr = FLASH_SECTOR(c, i)

RECURSIVE SelectFrom(_, _, _)
SelectFrom(c, addr, k) ==
    IF k > Len(SectorChain(c)) THEN 255
    ELSE IF addr <= FLASH_SECTOR_END(c, SectorChain(c)[k]) THEN SectorChain(c)[k]
    ELSE SelectFrom(c, addr, k + 1)

\* flash_select_sector with the last sector in the place of the final else
flash_select_sector_defaulting_to_last(c, addr) ==
    IF SelectFrom(c, addr, 1) = 255 THEN LastSector(c) ELSE SelectFrom(c, addr, 1)

flash_select_sector(c, addr) == SelectFrom(c, addr, 1)

flash_sector_size(c, sector) ==
    IF sector \in Range(SectorChain(c)) THEN FLASH_SECTOR_SIZE(c, sector) ELSE 0

-----------------------------------------------------------------------------
(* Sector boundaries of api/libflash.h.  They are those of the device (the  *)
(* reference manual's tables the two headers copy): libflash.h differs from *)
(* flash_regs.h in FLASH_SECTOR_12_END of the 2 MB table, 0x08103FFF.       *)

LibflashSectors2M == [Sectors2M EXCEPT ![12] = << \H08100000, \H08103FFF >>]

LibflashTable(c) == IF c.flash2M THEN LibflashSectors2M ELSE SectorTable(c)

\* the sector of table t holding addr (255: addr is not in the main array)
SectorIn(t, addr) ==
    IF \E i \in DOMAIN t : t[i][1] <= addr /\ addr <= t[i][2]
    THEN CHOOSE i \in DOMAIN t : t[i][1] <= addr /\ addr <= t[i][2]
    ELSE 255

\* the device's sector holding addr
HwSectorOf(c, addr) == SectorIn(LibflashTable(c), addr)

-----------------------------------------------------------------------------
(* Register fields: flash_regs.h.  A mask is the set of its bit positions.  *)

FLASH_SR_EOP_Pos    == 0
FLASH_SR_OPERR_Pos  == 1
FLASH_SR_WRPERR_Pos == 4
FLASH_SR_PGAERR_Pos == 5
FLASH_SR_PGPERR_Pos == 6
FLASH_SR_PGSERR_Pos == 7
FLASH_SR_RDERR_Pos  == 8
FLASH_SR_BSY_Pos    == 16

FLASH_CR_PG_Pos     == 0
FLASH_CR_SER_Pos    == 1
FLASH_CR_MER_Pos    == 2
FLASH_CR_SNB_Pos    == 3
FLASH_CR_PSIZE_Pos  == 8
FLASH_CR_MER1_Pos   == 15
FLASH_CR_STRT_Pos   == 16
FLASH_CR_LOCK_Pos   == 31

FLASH_OPTCR_OPTLOCK_Pos == 0

\* the 1-bits of a value below 2^31
Bits(v) == {b \in 0..30 : (v \div (2 ^ b)) % 2 = 1}

\* ((uint32_t)v << pos), bits shifted past bit 31 are lost
Shl(v, pos) == {b + pos : b \in Bits(v)} \cap (0..31)

\* the number whose 1-bits are the set s (s within 0..30)
RECURSIVE Val(_)
Val(s) == IF s = {} THEN 0
          ELSE LET b == CHOOSE x \in s : TRUE IN (2 ^ b) + Val(s \ {b})

FLASH_SR_OPERR_Msk  == Shl(1, FLASH_SR_OPERR_Pos)
FLASH_SR_WRPERR_Msk == Shl(1, FLASH_SR_WRPERR_Pos)
FLASH_SR_PGAERR_Msk == Shl(1, FLASH_SR_PGAERR_Pos)
FLASH_SR_PGPERR_Msk == Shl(1, FLASH_SR_PGPERR_Pos)
FLASH_SR_PGSERR_Msk == Shl(1, FLASH_SR_PGSERR_Pos)
FLASH_SR_RDERR_Msk  == Shl(1, FLASH_SR_RDERR_Pos)
FLASH_SR_BSY        == Shl(1, FLASH_SR_BSY_Pos)

FLASH_CR_PG_Msk     == Shl(1, FLASH_CR_PG_Pos)
FLASH_CR_SER_Msk    == Shl(1, FLASH_CR_SER_Pos)
FLASH_CR_MER_Msk    == Shl(1, FLASH_CR_MER_Pos)
FLASH_CR_SNB_Msk    == Shl(15, FLASH_CR_SNB_Pos)
FLASH_CR_PSIZE_Msk  == Shl(3, FLASH_CR_PSIZE_Pos)
FLASH_CR_MER1_Msk   == Shl(1, FLASH_CR_MER1_Pos)
FLASH_CR_STRT_Msk   == Shl(1, FLASH_CR_STRT_Pos)
FLASH_CR_LOCK_Msk   == {FLASH_CR_LOCK_Pos}

FLASH_OPTCR_OPTLOCK_Msk == Shl(1, FLASH_OPTCR_OPTLOCK_Pos)

\* get_reg_value: (reg & mask) >> pos
get_reg_value(reg, mask, pos) == Val({b - pos : b \in reg \cap mask})

\* set_reg_value: tmp = *reg; tmp &= ~mask; tmp |= (value << pos) & mask
set_reg_value(reg, value, mask, pos) ==
    (reg \ mask) \cup (Shl(value, pos) \cap mask)

\* err_mask with PGSERR (bit 7) left out
err_mask_without_PGSERR(c) == IF c.f42x THEN Bits(\H172) ELSE Bits(\H72)

\* uint32_t err_mask = 0x1f2 (f429/f439) or 0xf2
err_mask(c) == IF c.f42x THEN Bits(\H1F2) ELSE Bits(\HF2)

-----------------------------------------------------------------------------
(* The device: main array content, and what the flash interface does when   *)
(* the driver writes FLASH_SR / FLASH_CR or stores into the array.          *)
(*                                                                          *)
(* A machine record m threads the registers, the array, the hardware        *)
(* outcomes still to come (env) and what the running call did so far:       *)
(*   tr      the register accesses and stores it made, in order             *)
(*   strt    FLASH_CR as it stood each time the start bit was set           *)
(*   erased  device sectors erased, stores  addresses stored to             *)
(*   raised  error flags the hardware raised                                *)
(* One hardware operation runs to completion before the next poll of BSY.   *)

Unk == -1           \* a byte whose value is not tracked
ErasedByte == 255

\* bytes tracked in every device sector: offsets from its start, and its end
ProbeOffsets == {0, 16, 64}

ProbesOf(t) ==
    UNION {{t[i][1] + o : o \in ProbeOffsets} \cup {t[i][2]} : i \in DOMAIN t}

Probes(c) == ProbesOf(LibflashTable(c))

\* content before the first driver call: a programmed image without 0xFF
ImageByte(c, p) == ((p \div 16) * 37 + HwSectorOf(c, p) * 11 + 1) % 251

Image(c) == [p \in Probes(c) |-> ImageByte(c, p)]

\* the device sector of every tracked byte
HwSectorTab == [c \in Configs |-> [p \in Probes(c) |-> HwSectorOf(c, p)]]

\* programming can only clear bits
And8(a, b) == IF a = Unk \/ b = Unk THEN Unk ELSE Val(Bits(a) \cap Bits(b))

\* error flags the device has, and the outcome of one hardware operation:
\* the flags it raises and, when it raises any, whether the array was changed
\* all the same; mass: with SER and MER/MER1 both set, the mass erase is run
ErrFlags(c) ==
    {FLASH_SR_OPERR_Pos, FLASH_SR_WRPERR_Pos, FLASH_SR_PGAERR_Pos,
     FLASH_SR_PGPERR_Pos, FLASH_SR_PGSERR_Pos}
    \cup (IF c.f42x THEN {FLASH_SR_RDERR_Pos} ELSE {})

\* the bits of FLASH_SR that a write of 1 clears
SR_rc_w1 ==
    {FLASH_SR_EOP_Pos, FLASH_SR_OPERR_Pos, FLASH_SR_WRPERR_Pos,
     FLASH_SR_PGAERR_Pos, FLASH_SR_PGPERR_Pos, FLASH_SR_PGSERR_Pos,
     FLASH_SR_RDERR_Pos}

OkOutcome == [errs |-> {}, applied |-> TRUE, mass |-> FALSE]

NextOutcome(m) == IF m.env = <<>> THEN OkOutcome ELSE Head(m.env)
PopOutcome(m)  == IF m.env = <<>> THEN m ELSE [m EXCEPT !.env = Tail(@)]

\* sector number the device decodes from FLASH_CR: SNB[4:0] is bits 7:3 on
\* f42x/f43x (0..11 bank 1, 0x10..0x1B bank 2), SNB[3:0] bits 6:3 otherwise
HwSnb(c, crv) ==
    Val({b - FLASH_CR_SNB_Pos : b \in crv \cap (IF c.f42x THEN 3..7 ELSE 3..6)})

HwSnbSector(c, crv) ==
    {i \in DOMAIN LibflashTable(c) :
        i = (IF HwSnb(c, crv) \in 16..27 THEN HwSnb(c, crv) - 4
             ELSE HwSnb(c, crv))}

HwMassSectors(c, crv) ==
    {i \in DOMAIN LibflashTable(c) :
        \/ i <= 11 /\ FLASH_CR_MER_Pos \in crv
        \/ i >= 12 /\ c.f42x /\ FLASH_CR_MER1_Pos \in crv}

\* sectors erased by an operation started with SER = ser: one is the sector
\* SNB names, all those the mass-erase bits name
HwPick(ser, one, all, mass) ==
    IF all = {} THEN (IF ser THEN one ELSE {})
    ELSE IF ~ser THEN all
    ELSE IF mass THEN all ELSE one

HwTargets(c, crv, mass) ==
    HwPick(FLASH_CR_SER_Pos \in crv, HwSnbSector(c, crv),
           HwMassSectors(c, crv), mass)

EraseSectors(c, fl, S) ==
    [p \in DOMAIN fl |-> IF HwSectorTab[c][p] \in S THEN ErasedByte ELSE fl[p]]

\* the operation erases the sectors S and raises the flags errs
HwErase(c, m, errs, S) ==
    [m EXCEPT !.strt   = Append(@, m.cr),
              !.flash  = EraseSectors(c, @, S),
              !.erased = @ \cup S,
              !.sr     = @ \cup errs,
              !.raised = @ \cup errs,
              !.cr     = @ \ FLASH_CR_STRT_Msk]

HwRun(c, m, e) ==
    HwErase(c, m, e.errs,
            IF e.errs = {} \/ e.applied THEN HwTargets(c, m.cr, e.mass) ELSE {})

\* STRT written as 1 to an unlocked FLASH_CR: the erase runs, STRT reads 0 again
HwStart(c, m) == HwRun(c, PopOutcome(m), NextOutcome(m))

\* a write to FLASH_CR: ignored while LOCK is set
WriteCR(c, m, val) ==
    IF FLASH_CR_LOCK_Pos \in m.cr THEN m
    ELSE IF FLASH_CR_STRT_Pos \in val THEN HwStart(c, [m EXCEPT !.cr = val])
    ELSE [m EXCEPT !.cr = val]

\* a write to FLASH_SR: every flag written as 1 is cleared (rc_w1), BSY is
\* read-only
WriteSR(m, val) == [m EXCEPT !.sr = @ \ (val \cap SR_rc_w1)]

\* a write to FLASH_OPTCR (the bits the driver writes: OPTLOCK)
WriteOPTCR(m, val) ==
    IF FLASH_OPTCR_OPTLOCK_Pos \in m.optcr THEN m
    ELSE [m EXCEPT !.optcr = val]

\* FLASH_KEYR: KEY1 then KEY2 clears LOCK; anything else leaves it as it is.
\* Keys are <<high half, low half>>.
KEY1    == << \H4567, \H0123 >>
KEY2    == << \HCDEF, \H89AB >>
OPTKEY1 == << \H0819, \H2A3B >>
OPTKEY2 == << \H4C5D, \H6E7F >>

WriteKEYR(m, key) ==
    IF m.keyr = 0 /\ key = KEY1 THEN [m EXCEPT !.keyr = 1]
    ELSE IF m.keyr = 1 /\ key = KEY2
         THEN [m EXCEPT !.keyr = 0, !.cr = @ \ FLASH_CR_LOCK_Msk]
    ELSE [m EXCEPT !.keyr = 0]

\* FLASH_OPTKEYR: OPTKEY1 then OPTKEY2 clears OPTLOCK
WriteOPTKEYR(m, key) ==
    IF m.optkeyr = 0 /\ key = OPTKEY1 THEN [m EXCEPT !.optkeyr = 1]
    ELSE IF m.optkeyr = 1 /\ key = OPTKEY2
         THEN [m EXCEPT !.optkeyr = 0, !.optcr = @ \ FLASH_OPTCR_OPTLOCK_Msk]
    ELSE [m EXCEPT !.optkeyr = 0]

ProgramBytes(fl, addr, bytes) ==
    [p \in DOMAIN fl |->
        IF p >= addr /\ p < addr + Len(bytes)
        THEN And8(fl[p], bytes[p - addr + 1]) ELSE fl[p]]

\* the programming of bytes at addr ends with outcome e
HwProgram(m, addr, bytes, e) ==
    [m EXCEPT !.sr     = @ \cup e.errs,
              !.raised = @ \cup e.errs,
              !.flash  = IF e.errs = {} \/ e.applied
                         THEN ProgramBytes(@, addr, bytes) ELSE @]

\* *(addr) = elem, a store of Len(bytes) bytes: outside the array it does not
\* reach the flash interface; without PG (or while locked) it raises PGSERR,
\* with a width other than PSIZE it raises PGPERR
HwStore(c, m, addr, bytes) ==
    IF HwSectorOf(c, addr) = 255 THEN m
    ELSE IF FLASH_CR_LOCK_Pos \in m.cr \/ FLASH_CR_PG_Pos \notin m.cr
         THEN [m EXCEPT !.sr     = @ \cup FLASH_SR_PGSERR_Msk,
                        !.raised = @ \cup FLASH_SR_PGSERR_Msk]
    ELSE IF 2 ^ get_reg_value(m.cr, FLASH_CR_PSIZE_Msk, FLASH_CR_PSIZE_Pos)
            # Len(bytes)
         THEN [m EXCEPT !.sr     = @ \cup FLASH_SR_PGPERR_Msk,
                        !.raised = @ \cup FLASH_SR_PGPERR_Msk]
    ELSE HwProgram(PopOutcome(m), addr, bytes, NextOutcome(m))

-----------------------------------------------------------------------------
(* Register accesses of the driver (libc/regutils.h) and its stores, as the *)
(* statements a driver function is made of, and their execution in order.   *)

\* read_reg_value(reg)
read_reg_value(reg) == <<"read", reg>>

\* write_reg_value(reg, value)
write_reg_value(reg, value) == <<"write", reg, value>>

\* set_reg(reg, value, FIELD): read, replace the field, write back
set_reg(reg, value, mask, pos) == <<"set_reg", reg, value, mask, pos>>

\* *(addr) = elem
store(addr, bytes) == <<"store", addr, bytes>>

\* flash_is_busy(): one read of FLASH_SR;  flash_busy_wait(): reads of
\* FLASH_SR until BSY is clear, which it is at the first
flash_is_busy   == read_reg_value("SR")
flash_busy_wait == read_reg_value("SR")

\* the value that statement s writes into a register that holds old
Written(s, old) ==
    IF s[1] = "set_reg" THEN set_reg_value(old, s[3], s[4], s[5]) ELSE s[3]

\* the effect of the write s on the register it names
WriteReg(c, m, s) ==
    CASE s[2] = "CR"      -> WriteCR(c, m, Written(s, m.cr))
      [] s[2] = "SR"      -> WriteSR(m, Written(s, m.sr))
      [] s[2] = "OPTCR"   -> WriteOPTCR(m, Written(s, m.optcr))
      [] s[2] = "KEYR"    -> WriteKEYR(m, s[3])
      [] s[2] = "OPTKEYR" -> WriteOPTKEYR(m, s[3])

Exec1(c, m, s) ==
    CASE s[1] = "read"  -> m
      [] s[1] = "store" ->
            HwStore(c, [m EXCEPT !.stores = @ \cup {s[2]}], s[2], s[3])
      [] OTHER          -> WriteReg(c, m, s)

\* the statements of prog, one after the other
RECURSIVE Exec(_, _, _)
Exec(c, m, prog) ==
    IF prog = <<>> THEN m
    ELSE CHOOSE r \in
            {Exec(c, m1, Tail(prog)) :
                m1 \in {Exec1(c, [m EXCEPT !.tr = Append(@, Head(prog))],
                              Head(prog))}} : TRUE

-----------------------------------------------------------------------------
(* Lock / unlock: stm32f4xx_flash.c                                         *)

\* flash_unlock writing KEY2 before KEY1
flash_unlock_keys_swapped(c, m) ==
    Exec(c, m, << write_reg_value("KEYR", KEY2),
                  write_reg_value("KEYR", KEY1),
                  set_reg("SR", 1, FLASH_SR_PGSERR_Msk, FLASH_SR_PGSERR_Pos) >>)

\* flash_unlock writing its two keys to FLASH_OPTKEYR
flash_unlock_with_OPTKEYR(c, m) ==
    Exec(c, m, << write_reg_value("OPTKEYR", OPTKEY1),
                  write_reg_value("OPTKEYR", OPTKEY2),
                  set_reg("SR", 1, FLASH_SR_PGSERR_Msk, FLASH_SR_PGSERR_Pos) >>)

flash_unlock(c, m) ==
    Exec(c, m, << write_reg_value("KEYR", KEY1),
                  write_reg_value("KEYR", KEY2),
                  set_reg("SR", 1, FLASH_SR_PGSERR_Msk, FLASH_SR_PGSERR_Pos) >>)

flash_unlock_opt(c, m) ==
    Exec(c, m, << write_reg_value("OPTKEYR", OPTKEY1),
                  write_reg_value("OPTKEYR", OPTKEY2) >>)

\* flash_lock without the write of zero to FLASH_CR
flash_lock_without_zeroing(c, m) ==
    Exec(c, m, << set_reg("CR", 1, FLASH_CR_LOCK_Msk, FLASH_CR_LOCK_Pos) >>)

flash_lock(c, m) ==
    Exec(c, m, << write_reg_value("CR", {}),
                  set_reg("CR", 1, FLASH_CR_LOCK_Msk, FLASH_CR_LOCK_Pos) >>)

flash_lock_opt(c, m) ==
    Exec(c, m, << set_reg("OPTCR", 1, FLASH_OPTCR_OPTLOCK_Msk,
                          FLASH_OPTCR_OPTLOCK_Pos) >>)

-----------------------------------------------------------------------------
(* Erase engine: stm32f4xx_flash.c.  A function with a result returns       *)
(* [m |-> the machine afterwards, ret |-> the result].                      *)

\* the order in which the flags are tested
ErrOrder(c) ==
    <<FLASH_SR_OPERR_Pos, FLASH_SR_WRPERR_Pos, FLASH_SR_PGAERR_Pos,
      FLASH_SR_PGPERR_Pos, FLASH_SR_PGSERR_Pos>>
    \o (IF c.f42x THEN <<FLASH_SR_RDERR_Pos>> ELSE <<>>)

\* the set_reg of the first test that succeeds on the value reg of FLASH_SR
ErrClear(c, reg) ==
    IF reg \cap err_mask(c) = {} \/ reg \cap Range(ErrOrder(c)) = {} THEN <<>>
    ELSE LET k == CHOOSE x \in 1..Len(ErrOrder(c)) :
                     /\ ErrOrder(c)[x] \in reg
                     /\ \A y \in 1..(x - 1) : ErrOrder(c)[y] \notin reg
         IN  << set_reg("SR", 1, {ErrOrder(c)[k]}, ErrOrder(c)[k]) >>

flash_has_programming_errors(c, m) ==
    [m   |-> Exec(c, m, <<read_reg_value("SR")>> \o ErrClear(c, m.sr)),
     ret |-> ErrClear(c, m.sr) # <<>>]

\* (sector - 12) | 0x10
Reencode(sector) ==
    LET x == sector - 12 IN IF 4 \in Bits(x) THEN x ELSE x + 16

\* sector = flash_select_sector(addr), re-encoded in a dual-bank build
EraseSectorNumber(c, addr) ==
    IF c.dualBank /\ flash_select_sector(c, addr) > 11
    THEN Reencode(flash_select_sector(c, addr))
    ELSE flash_select_sector(c, addr)

\* EraseReturn without the test of flash_has_programming_errors()
EraseReturn_ignoring_errors(r, sector) == [m |-> r.m, ret |-> sector]

\* EraseReturn with the test of flash_has_programming_errors() inverted
EraseReturn_inverted_test(r, sector) ==
    [m |-> r.m, ret |-> IF r.ret THEN sector ELSE 255]

\* return sector, or 0xff after an error
EraseReturn(r, sector) == [m |-> r.m, ret |-> IF r.ret THEN 255 ELSE sector]

\* EraseSector returning right after the wait, SNB and SER left as they are
EraseSector_without_clearing(c, m, sector) ==
    EraseReturn(
        flash_has_programming_errors(c,
            Exec(c, m, << flash_is_busy,
                          set_reg("CR", 2, FLASH_CR_PSIZE_Msk, FLASH_CR_PSIZE_Pos),
                          set_reg("CR", 1, FLASH_CR_SER_Msk, FLASH_CR_SER_Pos),
                          set_reg("CR", sector, FLASH_CR_SNB_Msk, FLASH_CR_SNB_Pos),
                          set_reg("CR", 1, FLASH_CR_STRT_Msk, FLASH_CR_STRT_Pos),
                          flash_busy_wait >>)),
        sector)

\* SectorEraseProg with STRT set before the sector number is written
SectorEraseProg_start_before_SNB(sector) ==
    << flash_is_busy,
       set_reg("CR", 2, FLASH_CR_PSIZE_Msk, FLASH_CR_PSIZE_Pos),
       set_reg("CR", 1, FLASH_CR_SER_Msk, FLASH_CR_SER_Pos),
       set_reg("CR", 1, FLASH_CR_STRT_Msk, FLASH_CR_STRT_Pos),
       set_reg("CR", sector, FLASH_CR_SNB_Msk, FLASH_CR_SNB_Pos),
       flash_busy_wait,
       set_reg("CR", 0, FLASH_CR_SNB_Msk, FLASH_CR_SNB_Pos),
       set_reg("CR", 0, FLASH_CR_SER_Msk, FLASH_CR_SER_Pos) >>

\* SectorEraseProg without if (flash_is_busy()) flash_busy_wait()
SectorEraseProg_without_busy_check(sector) ==
    << set_reg("CR", 2, FLASH_CR_PSIZE_Msk, FLASH_CR_PSIZE_Pos),
       set_reg("CR", 1, FLASH_CR_SER_Msk, FLASH_CR_SER_Pos),
       set_reg("CR", sector, FLASH_CR_SNB_Msk, FLASH_CR_SNB_Pos),
       set_reg("CR", 1, FLASH_CR_STRT_Msk, FLASH_CR_STRT_Pos),
       flash_busy_wait,
       set_reg("CR", 0, FLASH_CR_SNB_Msk, FLASH_CR_SNB_Pos),
       set_reg("CR", 0, FLASH_CR_SER_Msk, FLASH_CR_SER_Pos) >>

\* the statements of flash_sector_erase between its range test and its
\* error check
SectorEraseProg(sector) ==
    << flash_is_busy,
       set_reg("CR", 2, FLASH_CR_PSIZE_Msk, FLASH_CR_PSIZE_Pos),
       set_reg("CR", 1, FLASH_CR_SER_Msk, FLASH_CR_SER_Pos),
       set_reg("CR", sector, FLASH_CR_SNB_Msk, FLASH_CR_SNB_Pos),
       set_reg("CR", 1, FLASH_CR_STRT_Msk, FLASH_CR_STRT_Pos),
       flash_busy_wait,
       set_reg("CR", 0, FLASH_CR_SNB_Msk, FLASH_CR_SNB_Pos),
       set_reg("CR", 0, FLASH_CR_SER_Msk, FLASH_CR_SER_Pos) >>

EraseSector(c, m, sector) ==
    EraseReturn(
        flash_has_programming_errors(c, Exec(c, m, SectorEraseProg(sector))),
        sector)

flash_sector_erase(c, m, addr) ==
    IF ~IS_IN_FLASH(c, addr) THEN [m |-> m, ret |-> 255]
    ELSE EraseSector(c, m, EraseSectorNumber(c, addr))

\* BankEraseProg without the goto err of the single-bank build
BankEraseProg_without_goto(c, bank) ==
    << flash_is_busy,
       IF bank # 0
       THEN set_reg("CR", 1, FLASH_CR_MER1_Msk, FLASH_CR_MER1_Pos)
       ELSE set_reg("CR", 1, FLASH_CR_MER_Msk, FLASH_CR_MER_Pos),
       set_reg("CR", 1, FLASH_CR_STRT_Msk, FLASH_CR_STRT_Pos),
       flash_busy_wait >>

\* the statements of flash_bank_erase up to its error check
BankEraseProg(c, bank) ==
    IF bank # 0 /\ ~c.dualBank THEN <<flash_is_busy>>
    ELSE << flash_is_busy,
            IF bank # 0
            THEN set_reg("CR", 1, FLASH_CR_MER1_Msk, FLASH_CR_MER1_Pos)
            ELSE set_reg("CR", 1, FLASH_CR_MER_Msk, FLASH_CR_MER_Pos),
            set_reg("CR", 1, FLASH_CR_STRT_Msk, FLASH_CR_STRT_Pos),
            flash_busy_wait >>

\* the error check is skipped by the goto of the single-bank build
BankEraseCheck(c, m, bank) ==
    IF bank # 0 /\ ~c.dualBank THEN m
    ELSE flash_has_programming_errors(c, m).m

flash_bank_erase(c, m, bank) ==
    BankEraseCheck(c, Exec(c, m, BankEraseProg(c, bank)), bank)

\* MassEraseProg without the write of MER1
MassEraseProg_without_MER1(c) ==
    << flash_is_busy,
       set_reg("CR", 1, FLASH_CR_MER_Msk, FLASH_CR_MER_Pos),
       set_reg("CR", 1, FLASH_CR_STRT_Msk, FLASH_CR_STRT_Pos),
       flash_busy_wait >>

\* the statements of flash_mass_erase up to its error check
MassEraseProg(c) ==
    << flash_is_busy,
       set_reg("CR", 1, FLASH_CR_MER_Msk, FLASH_CR_MER_Pos) >>
    \o (IF c.dualBank
        THEN << set_reg("CR", 1, FLASH_CR_MER1_Msk, FLASH_CR_MER1_Pos) >>
        ELSE <<>>)
    \o << set_reg("CR", 1, FLASH_CR_STRT_Msk, FLASH_CR_STRT_Pos),
          flash_busy_wait >>

flash_mass_erase(c, m) ==
    flash_has_programming_errors(c, Exec(c, m, MassEraseProg(c))).m

-----------------------------------------------------------------------------
(* Program engine: stm32f4xx_flash.c.  A value is its bytes, low byte first *)

\* ProgramProg without the write of PSIZE
ProgramProg_without_PSIZE(addr, bytes, elem_cfg) ==
    << flash_is_busy,
       set_reg("CR", 1, FLASH_CR_PG_Msk, FLASH_CR_PG_Pos),
       store(addr, bytes),
       flash_busy_wait >>

\* the statements of the macro flash_program(addr, elem, elem_cfg)
ProgramProg(addr, bytes, elem_cfg) ==
    << flash_is_busy,
       set_reg("CR", elem_cfg, FLASH_CR_PSIZE_Msk, FLASH_CR_PSIZE_Pos),
       set_reg("CR", 1, FLASH_CR_PG_Msk, FLASH_CR_PG_Pos),
       store(addr, bytes),
       flash_busy_wait >>

\* the macro flash_program(addr, elem, elem_cfg)
flash_program(c, m, addr, bytes, elem_cfg) ==
    Exec(c, m, ProgramProg(addr, bytes, elem_cfg))

\* flash_program(addr, value, elem_cfg); if (flash_has_programming_errors())
ProgramChecked(c, m, addr, bytes, elem_cfg) ==
    flash_has_programming_errors(
        c, flash_program(c, m, addr, bytes, elem_cfg)).m

\* ProgramErased without the test of what flash_sector_erase returned
ProgramErased_ignoring_failure(c, r, addr, bytes, elem_cfg) ==
    ProgramChecked(c, r.m, addr, bytes, elem_cfg)

\* if (flash_sector_erase(addr) == 0xff) goto err; r: what the erase returned
ProgramErased(c, r, addr, bytes, elem_cfg) ==
    IF r.ret = 255 THEN r.m
    ELSE ProgramChecked(c, r.m, addr, bytes, elem_cfg)

\* the body shared by flash_program_dword / _word / _hword / _byte
flash_program_elem(c, m, addr, bytes, elem_cfg) ==
    IF is_sector_start(c, addr)
    THEN ProgramErased(c, flash_sector_erase(c, m, addr), addr, bytes, elem_cfg)
    ELSE ProgramChecked(c, m, addr, bytes, elem_cfg)

\* flash_program_byte with the width code of flash_program_hword
flash_program_byte_with_hword_width(c, m, addr, bytes) ==
    flash_program_elem(c, m, addr, bytes, 1)

flash_program_dword(c, m, addr, bytes) == flash_program_elem(c, m, addr, bytes, 3)
flash_program_word(c, m, addr, bytes)  == flash_program_elem(c, m, addr, bytes, 2)
flash_program_hword(c, m, addr, bytes) == flash_program_elem(c, m, addr, bytes, 1)
flash_program_byte(c, m, addr, bytes)  == flash_program_elem(c, m, addr, bytes, 0)

-----------------------------------------------------------------------------
(* Read: stm32f4xx_flash.c                                                  *)

MemByte(fl, a) == IF a \in DOMAIN fl THEN fl[a] ELSE Unk

\* memcpy(buffer, (void*)addr, size): the first size bytes of the buffer
flash_read(c, fl, buf, addr, size) ==
    IF NOT_IS_IN_FLASH_unparenthesised(c, addr) THEN buf
    ELSE [k \in 1..Len(buf) |->
             IF k <= size THEN MemByte(fl, addr + k - 1) ELSE buf[k]]

-----------------------------------------------------------------------------
(* Sector copy: stm32f4xx_flash.c.  The loops run i < sector_size, j < 16,  *)
(* k < 64: chunk q = 16*i + j is read from src + (i<<8) + (j<<4) = src+16*q *)
(* and programmed byte by byte to dest + (i<<10) + (j<<6) + k = dest+64*q+k,*)
(* so the bytes dest .. dest + 1024*sector_size - 1 are programmed in       *)
(* ascending order.  The calls that touch a tracked byte are replayed in    *)
(* that order; the calls in between leave the tracked bytes alone.  Of the  *)
(* register accesses, tr keeps those of the first erase only.               *)

RECURSIVE SortedSeq(_)
SortedSeq(S) ==
    IF S = {} THEN <<>>
    ELSE LET lo == CHOOSE x \in S : \A y \in S : x <= y
         IN  <<lo>> \o SortedSeq(S \ {lo})

\* the byte flash_read leaves in buffer[k] for the chunk at address r, read
\* when the array was snap
CopyByte(c, snap, r, k) ==
    IF NOT_IS_IN_FLASH_unparenthesised(c, r) THEN Unk ELSE MemByte(snap, r + k)

\* one flash_program_byte of the inner loop, at the tracked address a;
\* st.q, st.snap: the chunk being written and the array as it was when the
\* chunk was read into the buffer
CopyWrite(c, st, a, qa, v) ==
    [m    |-> [flash_program_byte(c, st.m, a, <<v>>) EXCEPT !.tr = st.m.tr],
     q    |-> qa,
     snap |-> IF qa = st.q THEN st.snap ELSE st.m.flash]

CopyStep(c, st, dest, src, a) ==
    CopyWrite(c, st, a, (a - dest) \div 64,
              CopyByte(c, IF (a - dest) \div 64 = st.q THEN st.snap ELSE st.m.flash,
                       src + 16 * ((a - dest) \div 64), (a - dest) % 64))

\* the calls at evs[lo] .. evs[hi], in order
RECURSIVE CopyFold(_, _, _, _, _, _, _)
CopyFold(c, st, dest, src, evs, lo, hi) ==
    IF lo > hi THEN st
    ELSE IF lo = hi THEN CopyStep(c, st, dest, src, evs[lo])
    ELSE CHOOSE r \in
            {CopyFold(c, left, dest, src, evs, (lo + hi) \div 2 + 1, hi) :
                left \in {CopyFold(c, st, dest, src, evs, lo, (lo + hi) \div 2)}}
            : TRUE

\* the loops, after the erase returned r
CopyLoops(c, r, dest, src, evs) ==
    CopyFold(c, [m |-> r.m, q |-> -1, snap |-> r.m.flash],
             dest, src, evs, 1, Len(evs)).m

\* the last call of the loops, flash_program_byte(dest + len - 1, ..)
CopyLast(c, m, lastAddr) ==
    IF lastAddr \in DOMAIN m.flash THEN m
    ELSE [flash_program_byte(c, m, lastAddr, <<Unk>>) EXCEPT !.tr = m.tr]

\* sector_size = flash_sector_size(sector); len bytes are copied
CopySized(c, r, dest, src, len) ==
    IF len = 0 THEN r.m
    ELSE CopyLast(c, CopyLoops(c, r, dest, src,
                     SortedSeq({a \in Probes(c) : a >= dest /\ a < dest + len})),
                  dest + len - 1)

CopyErased(c, r, dest, src) ==
    CopySized(c, r, dest, src, 1024 * flash_sector_size(c, r.ret))

flash_copy_sector(c, m, dest, src) ==
    IF NOT_IS_IN_FLASH_unparenthesised(c, dest)
       \/ NOT_IS_IN_FLASH_unparenthesised(c, src)
    THEN m
    ELSE CopyErased(c, flash_sector_erase(c, m, dest), dest, src)

-----------------------------------------------------------------------------
(* Device registration: t_flash_dev_id (api/libflash.h), flash_device_tab,  *)
(* flash_device_desc_tab, flash_device_early_init and the two queries.      *)
(* A build is a configuration c and w, the value of CONFIG_WOOKEY.          *)
(* flash_device_early_init reads devmap->map_bank1, map_bank2 and           *)
(* map_ctrl_2 in a dual-bank build; t_device_mapping has the first two      *)
(* under other names (map_mem_bank1, map_mem_bank2) and the third only with *)
(* CONFIG_WOOKEY: a dual-bank build compiles only with CONFIG_WOOKEY.       *)

Compiles(c, w) == c.dualBank => w

\* the enumerators of t_flash_dev_id in order; the value of the k-th is k - 1
t_flash_dev_id(c, w) ==
    (IF w THEN <<"FLIP_SHR", "FLIP", "FLOP_SHR", "FLOP">>
     ELSE IF c.dualBank THEN <<"BANK1", "BANK2">> ELSE <<"MEM">>)
    \o <<"CTRL">>
    \o (IF c.dualBank THEN <<"CTRL2">> ELSE <<>>)
    \o <<"SYSTEM", "OTP", "OPT_BANK1">>
    \o (IF c.dualBank THEN <<"OPT_BANK2">> ELSE <<>>)

\* the value of enumerator name
DevId(c, w, name) ==
    CHOOSE k \in 0..(Len(t_flash_dev_id(c, w)) - 1) :
        t_flash_dev_id(c, w)[k + 1] = name

\* the largest value of t_flash_dev_id
LastDevId(c, w) == Len(t_flash_dev_id(c, w)) - 1

device_t(name, address, size) == [name |-> name, address |-> address, size |-> size]

\* flash_device_tab; the element of index k is flash_device_tab(c, w)[k + 1]
flash_device_tab(c, w) ==
    (IF w
     THEN << device_t("flash_flip_shr", \H08008000, \H8000),
             device_t("flash_flip",     \H08000000, \H100000),
             device_t("flash_flop_shr", \H08108000, \H8000),
             device_t("flash_flop",     \H08100000, \H100000) >>
     ELSE IF c.dualBank
     THEN IF c.flash2M
          THEN << device_t("flash_bank1", \H08000000, \H100000),
                  device_t("flash_bank2", \H08100000, \H100000) >>
          ELSE << device_t("flash_bank1", \H08000000, \H80000),
                  device_t("flash_bank2", \H08080000, \H80000) >>
     ELSE << device_t("flash_mem", \H08000000, \H100000) >>)
    \o << device_t("flash_ctrl",    \H40023C00, \H400),
          device_t("flash_ctrl_2",  \H40023C00, \H100),
          device_t("flash_system",  \H1FFF0000, \H7800),
          device_t("flash_otp",     \H1FFF7800, \H400),
          device_t("flash_opb_bk1", \H1FFFC000, \H20) >>
    \o (IF c.dualBank THEN << device_t("flash_opb_bk2", \H1FFEC000, \H20) >>
        ELSE <<>>)

\* the number of elements of flash_device_desc_tab
DescTabLen(c, w) ==
    (IF w THEN 4 ELSE IF c.dualBank THEN 2 ELSE 1) + 4
    + (IF c.dualBank THEN 1 ELSE 0)

\* the memory of flash_device_desc_tab, indices 0..DescTabLen - 1, and the
\* int that follows the table in memory, index DescTabLen, holding v
DescMemory(c, w, v) ==
    [k \in 0..DescTabLen(c, w) |-> IF k = DescTabLen(c, w) THEN v ELSE 0]

\* the handle the mapping service gives to the device described by element k
\* of flash_device_tab: non-zero, one per device
Handle(k) == k + 1

\* sys_init(INIT_DEVACCESS, &flash_device_tab[id], &flash_device_desc_tab[id]):
\* the service registers the device and stores its handle, or refuses
sys_init(c, w, st, id, ok) ==
    [desc |-> IF ok THEN [st.desc EXCEPT ![id] = Handle(id)] ELSE st.desc,
     tr   |-> Append(st.tr, [id |-> id, dev |-> flash_device_tab(c, w)[id + 1],
                             slot |-> id, done |-> ok]),
     ret  |-> IF ok THEN 0 ELSE -1]

\* the tests of devmap's fields in the order of flash_device_early_init, each
\* named by the enumerator it registers
DevmapChain(c, w) ==
    (IF w THEN <<"FLIP_SHR", "FLIP", "FLOP_SHR", "FLOP">>
     ELSE IF c.dualBank THEN <<"BANK1", "BANK2">> ELSE <<"MEM">>)
    \o <<"CTRL">>
    \o (IF c.dualBank THEN <<"CTRL2">> ELSE <<>>)
    \o <<"SYSTEM", "OTP">>
    \o <<"OPT_BANK1">>
    \o (IF c.dualBank THEN <<"OPT_BANK2">> ELSE <<>>)

\* flash_device_early_init from the k-th test on: goto err at the first
\* sys_init that does not return SYS_E_DONE
RECURSIVE EarlyInitFrom(_, _, _, _, _, _)
EarlyInitFrom(c, w, st, devmap, refused, k) ==
    IF k > Len(DevmapChain(c, w)) THEN st
    ELSE IF DevmapChain(c, w)[k] \notin devmap.flags
    THEN EarlyInitFrom(c, w, st, devmap, refused, k + 1)
    ELSE LET r == sys_init(c, w, st, DevId(c, w, DevmapChain(c, w)[k]),
                           DevmapChain(c, w)[k] \notin refused)
         IN  IF r.ret # 0 THEN r
             ELSE EarlyInitFrom(c, w, r, devmap, refused, k + 1)

\* flash_device_early_init giving back the table as it found it when a
\* registration fails
flash_device_early_init_with_rollback(c, w, desc, devmap, refused) ==
    IF devmap.null THEN [desc |-> desc, tr |-> <<>>, ret |-> -1]
    ELSE LET r == EarlyInitFrom(c, w, [desc |-> desc, tr |-> <<>>, ret |-> 0],
                                devmap, refused, 1)
         IN  IF r.ret # 0 THEN [r EXCEPT !.desc = desc] ELSE r

\* devmap: [null: is the pointer null, flags: the fields that are true]
flash_device_early_init(c, w, desc, devmap, refused) ==
    IF devmap.null THEN [desc |-> desc, tr |-> <<>>, ret |-> -1]
    ELSE EarlyInitFrom(c, w, [desc |-> desc, tr |-> <<>>, ret |-> 0],
                       devmap, refused, 1)

flash_is_device_registered(desc, device) == desc[device] # 0

flash_get_descriptor(c, w, desc, id) ==
    IF id <= DevId(c, w, IF c.dualBank THEN "OPT_BANK2" ELSE "OPT_BANK1")
    THEN desc[id]
    ELSE 0

-----------------------------------------------------------------------------
(* Bounds of the model and the inputs the calls are given.                  *)

MaxOps      == 2    \* erase, program and read calls in one run
CopyCost    == 2    \* calls that one flash_copy_sector is counted as
MaxFaults   == 1    \* hardware operations that fail in one run
MaxErrFlags == 1    \* flags a failing operation raises, short of all of them
BufLen      == 2    \* bytes of the caller's read buffer
MaxInitCalls == 1   \* calls of flash_device_early_init in one run

BelowFlash(c) == FLASH_SECTOR(c, 0) - 1
AboveFlash(c) == FLASH_SECTOR_END(c, LastSector(c)) + 1

\* first and last address of every sector, by either header
SectorEdges(c) ==
    UNION {{SectorTable(c)[i][1], SectorTable(c)[i][2], LibflashTable(c)[i][2]}
              : i \in SectorIds(c)}

\* addresses handed to flash_select_sector and is_sector_start
MapAddrs(c) ==
    SectorEdges(c) \cup {a - 1 : a \in SectorEdges(c)}
    \cup {a + 1 : a \in SectorEdges(c)} \cup {FLASH_SECTOR(c, 0) + 16}

\* the sector starts of all the configurations
AllSectorStarts ==
    UNION {{SectorTable(k)[i][1] : i \in SectorIds(k)} : k \in Configs}

\* addresses handed to is_sector_start: those of the map and the sector
\* starts of the other configurations
StartAddrs(c) == MapAddrs(c) \cup AllSectorStarts

\* addresses handed to flash_select_sector: those of the map and addresses
\* further above the array, among them the system memory and the registers
\* of the flash interface
SelectAddrs(c) ==
    MapAddrs(c) \cup {AboveFlash(c) + 1, AboveFlash(c) + 65536,
                      \H1FFF0000, \H40023C00}

\* addresses handed to erase, program and read: outside the array on either
\* side, the start and the inside of the first sector and of a later one (the
\* first of the second bank where there is one), and the last byte
OpSectors(c) == {0, IF 12 \in SectorIds(c) THEN 12 ELSE 1}

OpAddrs(c) ==
    {BelowFlash(c), AboveFlash(c), LibflashTable(c)[LastSector(c)][2]}
    \cup UNION {{LibflashTable(c)[i][1], LibflashTable(c)[i][1] + 64}
                   : i \in OpSectors(c)}

\* addresses handed to the wider program calls
WideAddrs(c) ==
    {BelowFlash(c), LibflashTable(c)[0][1], LibflashTable(c)[0][1] + 64}

\* destinations and sources handed to flash_copy_sector
CopyDests(c) ==
    {BelowFlash(c), AboveFlash(c)}
    \cup {LibflashTable(c)[i][1] : i \in OpSectors(c)}

CopySrcs(c) ==
    {BelowFlash(c), AboveFlash(c), LibflashTable(c)[1][1]}

ByteValues == {0, 90}
WideValue  == CHOOSE v \in ByteValues : v # 0

Bytes(v, n) == [k \in 1..n |-> v]

ErrSets(c) ==
    {E \in SUBSET ErrFlags(c) : E # {} /\ Cardinality(E) <= MaxErrFlags}
    \cup {ErrFlags(c)}

\* a failing operation: OPERR alone reports an operation that ran, and may
\* have changed the array; the other flags report a request that was refused
FaultOutcomes(c) ==
    {[errs |-> E, applied |-> FALSE, mass |-> FALSE] : E \in ErrSets(c)}
    \cup {[errs |-> FLASH_SR_OPERR_Msk, applied |-> TRUE, mass |-> FALSE]}

\* outcomes the next hardware operation can have: which of the two erases
\* runs is open only when a mass-erase bit is still set in FLASH_CR
Outcomes(c) ==
    {OkOutcome}
    \cup (IF cr \cap (FLASH_CR_MER_Msk \cup FLASH_CR_MER1_Msk) # {}
          THEN {[OkOutcome EXCEPT !.mass = TRUE]} ELSE {})
    \cup (IF nfaults < MaxFaults THEN FaultOutcomes(c) ELSE {})

\* outcomes of the hardware operations of one program call: of the store, or
\* of the automatic erase and, when that went through, of the store
ProgEnvs(c, addr) ==
    IF is_sector_start(c, addr)
    THEN {<<e>> : e \in {x \in Outcomes(c) : x.errs # {}}}
         \cup {<<e1, e2>> : e1 \in {x \in Outcomes(c) : x.errs = {}},
                            e2 \in Outcomes(c)}
    ELSE {<<e>> : e \in Outcomes(c)}

Faults(env) == Cardinality({k \in DOMAIN env : env[k].errs # {}})

-----------------------------------------------------------------------------
(* State machine                                                            *)

BufInit == [k \in 1..BufLen |-> 253]

NoCall == [op |-> "reset", a1 |-> 0, a2 |-> 0, ret |-> 0, tr |-> <<>>,
           strt |-> <<>>, erased |-> {}, stores |-> {}, raised |-> {},
           cr0 |-> {}, sr0 |-> {}]

\* no hardware operation in progress, none ended yet
NoHwOp == [kind |-> "none", by |-> 0, call |-> "none", seq |-> 0, cr |-> {},
           alone |-> TRUE, want |-> 0, addr |-> 0, bytes |-> <<>>,
           erased |-> {}, raised |-> {}]

HwIdle == [now |-> NoHwOp, done |-> NoHwOp]

\* the registration state at start: no call made, the table zeroed, the int
\* after the table holding v
DevReset(c, w, v) == [wookey |-> w, desc |-> DescMemory(c, w, v), ncalls |-> 0]

\* after reset: both registers locked; PGSERR can be latched (see flash_unlock)
InitFlash ==
    /\ cfg \in Configs
    /\ cr = FLASH_CR_LOCK_Msk
    /\ sr \in {{}, FLASH_SR_PGSERR_Msk}
    /\ optcr = FLASH_OPTCR_OPTLOCK_Msk
    /\ keyr = 0
    /\ optkeyr = 0
    /\ flash = Image(cfg)
    /\ buffer = BufInit
    /\ last = NoCall
    /\ nops = 0
    /\ nfaults = 0

\* the states the runs of the flash operations start from
Init ==
    /\ InitFlash
    /\ dev = DevReset(cfg, cfg.dualBank, 0)
    /\ thr = <<>>
    /\ hw = HwIdle

\* the machine a call starts from, env: the outcomes of its hardware operations
Machine(env) ==
    [cr |-> cr, sr |-> sr, optcr |-> optcr, keyr |-> keyr, optkeyr |-> optkeyr,
     flash |-> flash, env |-> env, tr |-> <<>>, strt |-> <<>>,
     erased |-> {}, stores |-> {}, raised |-> {}]

\* the call op(a1, a2) returned ret and left the machine m
Return(op, a1, a2, ret, m) ==
    /\ cr' = m.cr
    /\ sr' = m.sr
    /\ optcr' = m.optcr
    /\ keyr' = m.keyr
    /\ optkeyr' = m.optkeyr
    /\ flash' = m.flash
    /\ last' = [op |-> op, a1 |-> a1, a2 |-> a2, ret |-> ret, tr |-> m.tr,
                strt |-> m.strt, erased |-> m.erased, stores |-> m.stores,
                raised |-> m.raised, cr0 |-> cr, sr0 |-> sr]
    /\ UNCHANGED <<cfg, dev, thr, hw>>

\* the run has room for a call counted as cost calls
CanCall(cost) == nops + cost <= MaxOps

\* a call counted as cost calls is made with the hardware outcomes env
Counted(env, cost) ==
    /\ nops' = nops + cost
    /\ nfaults' = nfaults + Faults(env)

Unlock ==
    /\ Return("flash_unlock", 0, 0, 0, flash_unlock(cfg, Machine(<<>>)))
    /\ UNCHANGED <<buffer, nops, nfaults>>

Lock ==
    /\ Return("flash_lock", 0, 0, 0, flash_lock(cfg, Machine(<<>>)))
    /\ UNCHANGED <<buffer, nops, nfaults>>

SectorErase ==
    /\ CanCall(1)
    /\ \E addr \in OpAddrs(cfg), e \in Outcomes(cfg) :
          LET r == flash_sector_erase(cfg, Machine(<<e>>), addr)
          IN  /\ Return("flash_sector_erase", addr, 0, r.ret, r.m)
              /\ Counted(<<e>>, 1)
    /\ UNCHANGED buffer

BankErase ==
    /\ CanCall(1)
    /\ \E bank \in {0, 1}, e \in Outcomes(cfg) :
          /\ Return("flash_bank_erase", bank, 0, 0,
                    flash_bank_erase(cfg, Machine(<<e>>), bank))
          /\ Counted(<<e>>, 1)
    /\ UNCHANGED buffer

MassErase ==
    /\ CanCall(1)
    /\ \E e \in Outcomes(cfg) :
          /\ Return("flash_mass_erase", 0, 0, 0,
                    flash_mass_erase(cfg, Machine(<<e>>)))
          /\ Counted(<<e>>, 1)
    /\ UNCHANGED buffer

ProgramDword ==
    /\ CanCall(1)
    /\ \E addr \in WideAddrs(cfg) : \E env \in ProgEnvs(cfg, addr) :
          /\ Return("flash_program_dword", addr, WideValue, 0,
                    flash_program_dword(cfg, Machine(env), addr,
                                        Bytes(WideValue, 8)))
          /\ Counted(env, 1)
    /\ UNCHANGED buffer

ProgramWord ==
    /\ CanCall(1)
    /\ \E addr \in WideAddrs(cfg) : \E env \in ProgEnvs(cfg, addr) :
          /\ Return("flash_program_word", addr, WideValue, 0,
                    flash_program_word(cfg, Machine(env), addr,
                                       Bytes(WideValue, 4)))
          /\ Counted(env, 1)
    /\ UNCHANGED buffer

ProgramHword ==
    /\ CanCall(1)
    /\ \E addr \in WideAddrs(cfg) : \E env \in ProgEnvs(cfg, addr) :
          /\ Return("flash_program_hword", addr, WideValue, 0,
                    flash_program_hword(cfg, Machine(env), addr,
                                        Bytes(WideValue, 2)))
          /\ Counted(env, 1)
    /\ UNCHANGED buffer

ProgramByte ==
    /\ CanCall(1)
    /\ \E addr \in OpAddrs(cfg), v \in ByteValues :
       \E env \in ProgEnvs(cfg, addr) :
          /\ Return("flash_program_byte", addr, v, 0,
                    flash_program_byte(cfg, Machine(env), addr, Bytes(v, 1)))
          /\ Counted(env, 1)
    /\ UNCHANGED buffer

Read ==
    /\ CanCall(1)
    /\ \E addr \in OpAddrs(cfg), size \in 1..BufLen :
          /\ buffer' = flash_read(cfg, flash, buffer, addr, size)
          /\ Return("flash_read", addr, size, 0, Machine(<<>>))
    /\ Counted(<<>>, 1)

CopySector ==
    /\ CanCall(CopyCost)
    /\ \E dest \in CopyDests(cfg), src \in CopySrcs(cfg), e \in Outcomes(cfg) :
          /\ Return("flash_copy_sector", dest, src, 0,
                    flash_copy_sector(cfg, Machine(<<e>>), dest, src))
          /\ Counted(<<e>>, CopyCost)
    /\ UNCHANGED buffer

Next ==
    \/ Unlock \/ Lock
    \/ SectorErase \/ BankErase \/ MassErase
    \/ ProgramDword \/ ProgramWord \/ ProgramHword \/ ProgramByte
    \/ Read \/ CopySector

Spec == Init /\ [][Next]_vars

-----------------------------------------------------------------------------
(* The address/sector map on its own: the calls that only compute.          *)

SelectSector ==
    /\ \E addr \in SelectAddrs(cfg) :
          last' = [NoCall EXCEPT !.op = "flash_select_sector", !.a1 = addr,
                                 !.ret = flash_select_sector(cfg, addr)]
    /\ UNCHANGED <<cfg, cr, sr, optcr, keyr, optkeyr, flash, buffer, nops, nfaults,
                   dev, thr, hw>>

SectorSize ==
    /\ \E sector \in 0..(LastSector(cfg) + 4) \cup {255} :
          last' = [NoCall EXCEPT !.op = "flash_sector_size", !.a1 = sector,
                                 !.ret = flash_sector_size(cfg, sector)]
    /\ UNCHANGED <<cfg, cr, sr, optcr, keyr, optkeyr, flash, buffer, nops, nfaults,
                   dev, thr, hw>>

IsSectorStart ==
    /\ \E addr \in StartAddrs(cfg) :
          last' = [NoCall EXCEPT !.op = "is_sector_start", !.a1 = addr,
                                 !.ret = IF is_sector_start(cfg, addr) THEN 1 ELSE 0]
    /\ UNCHANGED <<cfg, cr, sr, optcr, keyr, optkeyr, flash, buffer, nops, nfaults,
                   dev, thr, hw>>

NextMap == SelectSector \/ SectorSize \/ IsSectorStart

SpecMap == Init /\ [][NextMap]_vars

-----------------------------------------------------------------------------
(* The calls of Spec together with the lock and unlock of FLASH_OPTCR.      *)

UnlockOpt ==
    /\ Return("flash_unlock_opt", 0, 0, 0, flash_unlock_opt(cfg, Machine(<<>>)))
    /\ UNCHANGED <<buffer, nops, nfaults>>

LockOpt ==
    /\ Return("flash_lock_opt", 0, 0, 0, flash_lock_opt(cfg, Machine(<<>>)))
    /\ UNCHANGED <<buffer, nops, nfaults>>

NextLock ==
    \/ Unlock \/ Lock \/ UnlockOpt \/ LockOpt
    \/ SectorErase \/ BankErase \/ MassErase
    \/ ProgramDword \/ ProgramWord \/ ProgramHword \/ ProgramByte
    \/ Read \/ CopySector

SpecLock == Init /\ [][NextLock]_vars

-----------------------------------------------------------------------------
(* Byte programming and reading on a device that was unlocked and erased:   *)
(* the runs start after reset, flash_unlock() and one erase call that went  *)
(* through without error.                                                   *)

\* the machine after reset
ResetMachine(c) ==
    [cr |-> FLASH_CR_LOCK_Msk, sr |-> FLASH_SR_PGSERR_Msk,
     optcr |-> FLASH_OPTCR_OPTLOCK_Msk, keyr |-> 0, optkeyr |-> 0,
     flash |-> Image(c), env |-> <<>>, tr |-> <<>>, strt |-> <<>>,
     erased |-> {}, stores |-> {}, raised |-> {}]

\* the machines left by flash_mass_erase() or by flash_sector_erase() of the
\* start of a sector, called after flash_unlock()
ErasedMachines(c) ==
    {flash_mass_erase(c, flash_unlock(c, ResetMachine(c)))}
    \cup {flash_sector_erase(c, flash_unlock(c, ResetMachine(c)),
                             LibflashTable(c)[i][1]).m : i \in OpSectors(c)}

InitErased ==
    /\ cfg \in Configs
    /\ \E m \in ErasedMachines(cfg) :
          /\ cr = m.cr
          /\ sr = m.sr
          /\ optcr = m.optcr
          /\ keyr = m.keyr
          /\ optkeyr = m.optkeyr
          /\ flash = m.flash
    /\ buffer = BufInit
    /\ last = NoCall
    /\ nops = 0
    /\ nfaults = 0
    /\ dev = DevReset(cfg, cfg.dualBank, 0)
    /\ thr = <<>>
    /\ hw = HwIdle

NextErased == Unlock \/ Lock \/ ProgramByte \/ Read

SpecErased == InitErased /\ [][NextErased]_vars

-----------------------------------------------------------------------------
(* Device registration on its own: flash_device_early_init and the queries  *)
(* of the handle table, in the builds that compile.                         *)

\* requests handed to flash_device_early_init: a null pointer, no region,
\* one region, all regions but one, all regions
Requests(c, w) ==
    {[null |-> TRUE, flags |-> {}], [null |-> FALSE, flags |-> {}],
     [null |-> FALSE, flags |-> Range(t_flash_dev_id(c, w))]}
    \cup UNION {{[null |-> FALSE, flags |-> {n}],
                 [null |-> FALSE, flags |-> Range(t_flash_dev_id(c, w)) \ {n}]}
                   : n \in Range(t_flash_dev_id(c, w))}

\* the regions the mapping service refuses in one call: none or one
Refusals(c, w) == {{}} \cup {{n} : n \in Range(t_flash_dev_id(c, w))}

\* what the int after flash_device_desc_tab can hold: zero, or a value of
\* its owner
Neighbours(c, w) == {0, Handle(Len(flash_device_tab(c, w)))}

InitReg ==
    /\ InitFlash
    /\ \E w \in BOOLEAN :
          /\ Compiles(cfg, w)
          /\ \E v \in Neighbours(cfg, w) : dev = DevReset(cfg, w, v)
    /\ thr = <<>>
    /\ hw = HwIdle

RegUnchanged ==
    UNCHANGED <<cfg, cr, sr, optcr, keyr, optkeyr, flash, buffer, nops, nfaults,
                thr, hw>>

EarlyInit ==
    /\ dev.ncalls < MaxInitCalls
    /\ \E devmap \in Requests(cfg, dev.wookey), refused \in Refusals(cfg, dev.wookey) :
          LET r == flash_device_early_init(cfg, dev.wookey, dev.desc, devmap, refused)
          IN  /\ dev' = [dev EXCEPT !.desc = r.desc, !.ncalls = @ + 1]
              /\ last' = [NoCall EXCEPT !.op = "flash_device_early_init",
                                        !.a1 = devmap, !.a2 = refused,
                                        !.ret = r.ret, !.tr = r.tr]
    /\ RegUnchanged

IsDeviceRegistered ==
    /\ \E device \in 0..LastDevId(cfg, dev.wookey) :
          last' = [NoCall EXCEPT !.op = "flash_is_device_registered",
                                 !.a1 = device,
                                 !.ret = IF flash_is_device_registered(dev.desc, device)
                                         THEN 1 ELSE 0]
    /\ UNCHANGED dev
    /\ RegUnchanged

GetDescriptor ==
    /\ \E id \in 0..(LastDevId(cfg, dev.wookey) + 2) :
          last' = [NoCall EXCEPT !.op = "flash_get_descriptor", !.a1 = id,
                                 !.ret = flash_get_descriptor(cfg, dev.wookey, dev.desc, id)]
    /\ UNCHANGED dev
    /\ RegUnchanged

NextReg == EarlyInit \/ IsDeviceRegistered \/ GetDescriptor

SpecReg == InitReg /\ [][NextReg]_vars

-----------------------------------------------------------------------------
(* Stepwise runs of the erase and program calls: a caller makes one         *)
(* register access at a time (set_reg is a read, then a write), and the     *)
(* hardware operation a write of STRT or a store begins runs beside the     *)
(* callers: BSY is set until it ends.  FLASH_CR is unlocked at start.       *)
(* While BSY is set a write to FLASH_CR and a store to the array stall.     *)

\* a caller that is in no call
Idle == [op |-> "idle", a1 |-> 0, a2 |-> 0, sector |-> 0, code |-> 0,
         todo |-> <<>>, got |-> FALSE, tmp |-> {}, tr |-> <<>>,
         alone |-> TRUE, cr0 |-> {}, sr0 |-> {}]

\* if (flash_has_programming_errors()) goto err, at the end of
\* flash_sector_erase ("erase"), of a void call ("void"), or of the
\* flash_sector_erase that a program call makes first ("auto")
check(kind) == <<"check", kind>>

\* flash_busy_wait as one read of FLASH_SR, whatever it reads
PollPasses_at_once(srv) == TRUE

\* while (flash_is_busy()) {}: the loop is left when BSY reads 0
PollPasses(srv) == srv \cap FLASH_SR_BSY = {}

\* the bus stalls a write to FLASH_CR and a store to the array while BSY is set
Stalls(srv) == srv \cap FLASH_SR_BSY # {}

\* what is left of flash_sector_erase(addr) after its range test
SectorEraseSteps(c, addr, kind) ==
    IF ~IS_IN_FLASH(c, addr) THEN <<>>
    ELSE SectorEraseProg(EraseSectorNumber(c, addr)) \o << check(kind) >>

\* the statements of a program call of width code elem_cfg
ProgramSteps(c, addr, bytes, elem_cfg) ==
    IF is_sector_start(c, addr)
    THEN IF SectorEraseSteps(c, addr, "auto") = <<>> THEN <<>>
         ELSE SectorEraseSteps(c, addr, "auto")
              \o ProgramProg(addr, bytes, elem_cfg) \o << check("void") >>
    ELSE ProgramProg(addr, bytes, elem_cfg) \o << check("void") >>

\* the statements of flash_bank_erase: no error check after the goto of the
\* single-bank build
BankEraseSteps(c, bank) ==
    BankEraseProg(c, bank)
    \o (IF bank # 0 /\ ~c.dualBank THEN <<>> ELSE << check("void") >>)

StepCall(op, a1, a2, sector, code, todo) ==
    [Idle EXCEPT !.op = op, !.a1 = a1, !.a2 = a2, !.sector = sector,
                 !.code = code, !.todo = todo]

\* addresses handed to the calls of a stepwise run: the start of the second
\* sector and the inside of the first
StepAddrs(c) == {LibflashTable(c)[1][1], LibflashTable(c)[0][1] + 64}

ProgramCalls(c, op, width, elem_cfg) ==
    {StepCall(op, a, WideValue, EraseSectorNumber(c, a), elem_cfg,
              ProgramSteps(c, a, Bytes(WideValue, width), elem_cfg))
        : a \in StepAddrs(c)}

\* the calls one caller on its own is given
SerialCalls(c) ==
    {StepCall("flash_sector_erase", a, 0, EraseSectorNumber(c, a), 2,
              SectorEraseSteps(c, a, "erase")) : a \in StepAddrs(c) \cup {AboveFlash(c)}}
    \cup ProgramCalls(c, "flash_program_byte", 1, 0)
    \cup ProgramCalls(c, "flash_program_hword", 2, 1)
    \cup ProgramCalls(c, "flash_program_word", 4, 2)
    \cup ProgramCalls(c, "flash_program_dword", 8, 3)
    \cup {StepCall("flash_bank_erase", bank, 0, 0, 0, BankEraseSteps(c, bank))
             : bank \in {0, 1}}
    \cup {StepCall("flash_mass_erase", 0, 0, 0, 0,
                   MassEraseProg(c) \o << check("void") >>)}

\* the calls each of several callers is given: the erase of the second
\* sector and the programming of a byte inside the first
SharedCalls(c) ==
    {call \in SerialCalls(c) :
        \/ call.op = "flash_sector_erase" /\ call.a1 = LibflashTable(c)[1][1]
        \/ call.op = "flash_program_byte" /\ call.a1 = LibflashTable(c)[0][1] + 64}

StepCalls(c, n) == IF n = 1 THEN SerialCalls(c) ELSE SharedCalls(c)

\* after reset and flash_unlock(), n callers in no call; busy: the flash
\* interface is busy with an operation that is not of this driver; faults:
\* the hardware operations that failed before
InitStep(n, faults) ==
    /\ cfg \in Configs
    /\ cr = flash_unlock(cfg, ResetMachine(cfg)).cr
    /\ optcr = FLASH_OPTCR_OPTLOCK_Msk
    /\ keyr = 0
    /\ optkeyr = 0
    /\ flash = Image(cfg)
    /\ buffer = BufInit
    /\ last = NoCall
    /\ nops = 0
    /\ nfaults = faults
    /\ dev = DevReset(cfg, cfg.dualBank, 0)
    /\ thr = [t \in 1..n |-> Idle]
    /\ \E busy \in BOOLEAN :
          /\ sr = (IF busy THEN FLASH_SR_BSY ELSE {})
          /\ hw = (IF busy THEN [HwIdle EXCEPT !.now.kind = "other"] ELSE HwIdle)

StepUnchanged == UNCHANGED <<cfg, optcr, keyr, optkeyr, buffer, dev>>

\* caller t is in no call any more; its call returned ret
Returned(t, ret) ==
    /\ thr' = [thr EXCEPT ![t] = Idle]
    /\ last' = [NoCall EXCEPT !.op = thr[t].op, !.a1 = thr[t].a1, !.a2 = thr[t].a2,
                              !.ret = ret,
                              !.tr = Append(thr[t].tr, Head(thr[t].todo)),
                              !.cr0 = thr[t].cr0, !.sr0 = thr[t].sr0]

\* caller t has made the statement at the head of what is left of its call
Advanced(t) ==
    thr' = [thr EXCEPT ![t].todo = Tail(@), ![t].got = FALSE,
                       ![t].tr = Append(@, Head(thr[t].todo))]

\* a caller that is in no call makes one; a call that fails its range test
\* returns at once
Call ==
    /\ CanCall(1)
    /\ \E t \in DOMAIN thr : \E call \in StepCalls(cfg, Len(thr)) :
          /\ thr[t].op = "idle"
          /\ IF call.todo = <<>>
             THEN /\ last' = [NoCall EXCEPT !.op = call.op, !.a1 = call.a1,
                                            !.a2 = call.a2,
                                            !.ret = IF call.op = "flash_sector_erase"
                                                    THEN 255 ELSE 0,
                                            !.cr0 = cr, !.sr0 = sr]
                  /\ UNCHANGED thr
             ELSE /\ thr' = [u \in DOMAIN thr |->
                               IF u = t
                               THEN [call EXCEPT
                                        !.alone = \A v \in DOMAIN thr : thr[v].op = "idle",
                                        !.cr0 = cr, !.sr0 = sr]
                               ELSE [thr[u] EXCEPT !.alone = thr[u].op = "idle"]]
                  /\ UNCHANGED last
    /\ nops' = nops + 1
    /\ UNCHANGED <<cr, sr, flash, nfaults, hw>>
    /\ StepUnchanged

\* flash_is_busy() / flash_busy_wait(): the caller goes on when BSY reads 0
Poll ==
    /\ \E t \in DOMAIN thr :
          /\ thr[t].todo # <<>>
          /\ Head(thr[t].todo)[1] = "read"
          /\ PollPasses(sr)
          /\ Advanced(t)
    /\ UNCHANGED <<cr, sr, flash, last, nops, nfaults, hw>>
    /\ StepUnchanged

\* set_reg, first half: read of FLASH_CR
Get ==
    /\ \E t \in DOMAIN thr :
          /\ thr[t].todo # <<>>
          /\ Head(thr[t].todo)[1] = "set_reg"
          /\ ~thr[t].got
          /\ thr' = [thr EXCEPT ![t].got = TRUE, ![t].tmp = cr]
    /\ UNCHANGED <<cr, sr, flash, last, nops, nfaults, hw>>
    /\ StepUnchanged

\* the hardware operation that caller t begins, FLASH_CR holding crv
HwBegun(t, kind, crv, want) ==
    [hw EXCEPT !.now = [NoHwOp EXCEPT !.kind = kind, !.by = t, !.cr = crv,
                                      !.call = thr[t].op, !.seq = nops,
                                      !.alone = thr[t].alone, !.want = want,
                                      !.addr = thr[t].a1]]

\* set_reg, second half: write of FLASH_CR; with STRT the erase begins
Put ==
    /\ \E t \in DOMAIN thr :
          /\ thr[t].todo # <<>>
          /\ Head(thr[t].todo)[1] = "set_reg"
          /\ thr[t].got
          /\ ~Stalls(sr)
          /\ LET val == Written(Head(thr[t].todo), thr[t].tmp)
             IN  IF FLASH_CR_LOCK_Pos \in cr THEN UNCHANGED <<cr, sr, hw>>
                 ELSE IF FLASH_CR_STRT_Pos \in val
                 THEN /\ cr' = val
                      /\ sr' = sr \cup FLASH_SR_BSY
                      /\ hw' = HwBegun(t, "erase", val, thr[t].sector)
                 ELSE /\ cr' = val
                      /\ UNCHANGED <<sr, hw>>
          /\ Advanced(t)
    /\ UNCHANGED <<flash, last, nops, nfaults>>
    /\ StepUnchanged

\* *(addr) = elem: the programming begins
Store ==
    /\ \E t \in DOMAIN thr :
          /\ thr[t].todo # <<>>
          /\ Head(thr[t].todo)[1] = "store"
          /\ ~Stalls(sr)
          /\ sr' = sr \cup FLASH_SR_BSY
          /\ hw' = [HwBegun(t, "store", cr, thr[t].code)
                       EXCEPT !.now.bytes = Head(thr[t].todo)[3]]
          /\ Advanced(t)
    /\ UNCHANGED <<cr, flash, last, nops, nfaults>>
    /\ StepUnchanged

\* flash_has_programming_errors() and the return or the goto it decides
Check ==
    /\ \E t \in DOMAIN thr :
          /\ thr[t].todo # <<>>
          /\ Head(thr[t].todo)[1] = "check"
          /\ LET r == flash_has_programming_errors(cfg, Machine(<<>>))
             IN  /\ sr' = r.m.sr
                 /\ CASE Head(thr[t].todo)[2] = "erase"
                           -> Returned(t, EraseReturn(r, thr[t].sector).ret)
                      [] Head(thr[t].todo)[2] = "auto"
                           -> IF EraseReturn(r, thr[t].sector).ret = 255
                              THEN Returned(t, 0)
                              ELSE Advanced(t) /\ UNCHANGED last
                      [] OTHER
                           -> Returned(t, 0)
    /\ UNCHANGED <<cr, flash, nops, nfaults, hw>>
    /\ StepUnchanged

\* a call that ends without an error check: flash_bank_erase(1), single bank
Leave ==
    /\ \E t \in DOMAIN thr :
          /\ thr[t].op # "idle"
          /\ thr[t].todo = <<>>
          /\ thr' = [thr EXCEPT ![t] = Idle]
          /\ last' = [NoCall EXCEPT !.op = thr[t].op, !.a1 = thr[t].a1,
                                    !.tr = thr[t].tr,
                                    !.cr0 = thr[t].cr0, !.sr0 = thr[t].sr0]
    /\ UNCHANGED <<cr, sr, flash, nops, nfaults, hw>>
    /\ StepUnchanged

\* the machine the hardware operation in progress leaves when it ends with
\* outcome e
HwEnded(e) ==
    CASE hw.now.kind = "erase" -> HwStart(cfg, Machine(<<e>>))
      [] hw.now.kind = "store" ->
            HwStore(cfg, Machine(<<e>>), hw.now.addr, hw.now.bytes)
      [] OTHER -> Machine(<<>>)

\* the hardware operation in progress ends: BSY is cleared
HwDone ==
    /\ FLASH_SR_BSY \subseteq sr
    /\ \E e \in Outcomes(cfg) :
          /\ hw.now.kind = "other" => e = OkOutcome
          /\ cr' = HwEnded(e).cr
          /\ sr' = HwEnded(e).sr \ FLASH_SR_BSY
          /\ flash' = HwEnded(e).flash
          /\ hw' = [now |-> NoHwOp,
                    done |-> [hw.now EXCEPT !.erased = HwEnded(e).erased,
                                            !.raised = HwEnded(e).raised]]
          /\ nfaults' = nfaults + Faults(<<e>>)
    /\ UNCHANGED <<thr, last, nops>>
    /\ StepUnchanged

CallerStep == Poll \/ Get \/ Put \/ Store \/ Check \/ Leave

NextStep == Call \/ CallerStep \/ HwDone

\* one caller
InitSerial == InitStep(1, 0)

SpecSerial == InitSerial /\ [][NextStep]_vars

\* one caller, and hardware operations that all succeed
InitFair == InitStep(1, MaxFaults)

\* one caller that goes on with its call, and hardware that ends what it began
SpecSerialFair ==
    InitFair /\ [][NextStep]_vars /\ WF_vars(CallerStep) /\ WF_vars(HwDone)

\* two callers, not serialized; the flash interface is idle at start and
\* its operations all succeed
InitConc == InitStep(2, MaxFaults) /\ sr = {}

\* the calls of SharedCalls all end in an error check: no Leave
NextConc == Call \/ Poll \/ Get \/ Put \/ Store \/ Check \/ HwDone

SpecConc == InitConc /\ [][NextConc]_vars

-----------------------------------------------------------------------------
(* Properties.  last describes the call that returned last: its name, its   *)
(* arguments a1 and a2, its result, what it did, and FLASH_CR and FLASH_SR  *)
(* as they stood when it was made (cr0, sr0).                               *)

\* addr lies outside the configured flash range
OutsideFlash(c, addr) ==
    addr < SectorTable(c)[0][1] \/ addr > SectorTable(c)[LastSector(c)][2]

EraseOps == {"flash_sector_erase", "flash_bank_erase", "flash_mass_erase"}

ProgramOps == {"flash_program_dword", "flash_program_word",
               "flash_program_hword", "flash_program_byte"}

\* the call wrote FLASH_CR
WroteCR(tr) ==
    \E k \in DOMAIN tr : tr[k][1] \in {"write", "set_reg"} /\ tr[k][2] = "CR"

\* the five bits SNB[4:0] of a value of FLASH_CR
SnbField5(crv) == Val({b - FLASH_CR_SNB_Pos : b \in crv \cap (3..7)})

\* C1: in every configuration flash_select_sector(addr) returns i for every
\* addr from the start to the end of sector i, both included (the sectors
\* being those of the device, so 0x08100000 is in sector 12 of the 2 MB part)
C1_SelectSectorWithinBounds ==
    last.op = "flash_select_sector" =>
        \A i \in DOMAIN LibflashTable(cfg) :
            (LibflashTable(cfg)[i][1] <= last.a1
             /\ last.a1 <= LibflashTable(cfg)[i][2]) => last.ret = i

\* C2: in a dual-bank build, when flash_sector_erase(addr) sets the start bit
\* for an address of raw sector index s >= 12, the sector-number field of
\* FLASH_CR holds (s - 12) | 0x10 at that moment, bank-select bit included
C2_BankSelectBitInRegister ==
    (/\ last.op = "flash_sector_erase"
     /\ cfg.dualBank
     /\ last.strt # <<>>
     /\ flash_select_sector(cfg, last.a1) \in 12..23)
    => SnbField5(last.strt[1]) = (flash_select_sector(cfg, last.a1) - 12) + 16

\* C3: with FLASH_CR unlocked, a flash_sector_erase(addr) that reports success
\* leaves every byte of the sector containing addr erased and changes no byte
\* of any other sector
C3_SectorEraseFrame ==
    [][(/\ last'.op = "flash_sector_erase"
        /\ FLASH_CR_LOCK_Pos \notin cr
        /\ last'.ret # 255)
       => \A p \in DOMAIN flash :
             flash'[p] = IF HwSectorOf(cfg, p) = HwSectorOf(cfg, last'.a1)
                         THEN ErasedByte ELSE flash[p]]_vars

\* C4: flash_read(buffer, addr, size) leaves the buffer unchanged whenever
\* addr is below the first sector start or above the last sector end
C4_ReadOutsideFlashKeepsBuffer ==
    [][(last'.op = "flash_read" /\ OutsideFlash(cfg, last'.a1))
       => buffer' = buffer]_vars

\* C5: flash_copy_sector(dest, src) with src or dest outside flash aborts: it
\* accesses no register, erases nothing and changes no byte of flash
C5_CopyOutsideFlashAborts ==
    [][(/\ last'.op = "flash_copy_sector"
        /\ (OutsideFlash(cfg, last'.a1) \/ OutsideFlash(cfg, last'.a2)))
       => /\ last'.tr = <<>>
          /\ last'.erased = {}
          /\ flash' = flash]_vars

\* C6: flash_sector_erase(addr) with addr outside the configured flash range
\* returns 0xFF without any register access (no read of FLASH_SR, no write of
\* FLASH_CR, the start bit never set) and without changing flash
C6_SectorEraseOutsideFlash ==
    [][(last'.op = "flash_sector_erase" /\ OutsideFlash(cfg, last'.a1))
       => /\ last'.ret = 255
          /\ last'.tr = <<>>
          /\ last'.strt = <<>>
          /\ flash' = flash
          /\ cr' = cr
          /\ sr' = sr]_vars

\* a sector erase above the last sector end has returned 0xFF while the array
\* holds programmed bytes and FLASH_CR is unlocked
C6_Witness ==
    /\ last.op = "flash_sector_erase"
    /\ last.a1 = AboveFlash(cfg)
    /\ last.ret = 255
    /\ FLASH_CR_LOCK_Pos \notin cr
    /\ \E p \in DOMAIN flash : flash[p] # ErasedByte

\* C7: flash_program_byte / hword / word / dword called with an address
\* outside the configured flash range store nothing and do not write FLASH_CR
C7_ProgramOutsideFlashGated ==
    (last.op \in ProgramOps /\ OutsideFlash(cfg, last.a1))
    => last.stores = {} /\ ~WroteCR(last.tr)

\* C8: flash_sector_size(i) = sector_end(i) - sector_start(i) + 1 for every
\* sector i of the configuration, and 0 for every i past the last sector
C8_SectorSizeInBytes ==
    last.op = "flash_sector_size" =>
        /\ last.a1 \in DOMAIN LibflashTable(cfg) =>
              last.ret = LibflashTable(cfg)[last.a1][2]
                         - LibflashTable(cfg)[last.a1][1] + 1
        /\ last.a1 > LastSector(cfg) => last.ret = 0

\* C9: after flash_copy_sector(dest, src) with both addresses in flash and no
\* hardware error (FLASH_CR unlocked and no flag pending at the call, no flag
\* raised during it), every byte of the destination sector equals the byte at
\* the same offset of the source sector as it was before the call
C9_CopySameOffsets ==
    [][(/\ last'.op = "flash_copy_sector"
        /\ ~OutsideFlash(cfg, last'.a1)
        /\ ~OutsideFlash(cfg, last'.a2)
        /\ FLASH_CR_LOCK_Pos \notin cr
        /\ sr \cap ErrFlags(cfg) = {}
        /\ last'.raised = {})
       => \A o \in ProbeOffsets :
             (HwSectorOf(cfg, last'.a1 + o) = HwSectorOf(cfg, last'.a1)
              /\ HwSectorOf(cfg, last'.a2 + o) = HwSectorOf(cfg, last'.a2))
             => flash'[last'.a1 + o] = flash[last'.a2 + o]]_vars

\* C10 as stated: after any erase or program operation no error flag of
\* FLASH_SR is still set
C10_NoErrorFlagAfterAnyOperation ==
    last.op \in EraseOps \cup ProgramOps => sr \cap ErrFlags(cfg) = {}

\* the call got as far as flash_has_programming_errors(): all but a sector
\* erase outside flash and a second-bank erase in a single-bank build
ReachedErrorCheck ==
    /\ ~(last.op = "flash_sector_erase" /\ OutsideFlash(cfg, last.a1))
    /\ ~(last.op = "flash_bank_erase" /\ last.a1 # 0 /\ ~cfg.dualBank)

\* C10: after an erase or program operation that got as far as its error
\* check, no error flag of FLASH_SR is still set, whichever flags and however
\* many of them the hardware raised during the operation
C10_NoErrorFlagAfterCheckedOperation ==
    (last.op \in EraseOps \cup ProgramOps /\ ReachedErrorCheck)
    => sr \cap ErrFlags(cfg) = {}

\* an erase or program operation during which the hardware raised several
\* flags has returned
C10_Witness ==
    /\ last.op \in EraseOps \cup ProgramOps
    /\ ReachedErrorCheck
    /\ Cardinality(last.raised) > 1
    /\ FLASH_SR_PGSERR_Pos \in last.raised

\* the erase and program functions declared void
VoidOps == ProgramOps \cup {"flash_bank_erase", "flash_mass_erase"}

\* C11: for flash_program_byte / hword / word / dword, flash_bank_erase and
\* flash_mass_erase, a run in which the hardware raised an error flag returns
\* a value the caller can tell from the one a run without error returned: a
\* failed call that follows a successful call of the same function (FLASH_CR
\* unlocked, no flag raised) returns something else
C11_FailureVisibleInReturnValue ==
    [][(/\ last.op \in VoidOps
        /\ last'.op = last.op
        /\ FLASH_CR_LOCK_Pos \notin last.cr0
        /\ last.raised = {}
        /\ last'.raised # {})
       => last'.ret # last.ret]_vars

\* C12: flash_sector_erase(addr) of an address in flash returns 0xFF when any
\* error flag of FLASH_SR is set once the operation is over (set at the call
\* or raised during it), whichever flag it is, and a value other than 0xFF
\* when none is
C12_SectorEraseReportsErrorFlags ==
    [][(last'.op = "flash_sector_erase" /\ ~OutsideFlash(cfg, last'.a1))
       => (last'.ret = 255
              <=> (sr \cup last'.raised) \cap ErrFlags(cfg) # {})]_vars

\* a sector erase of an address in flash has returned 0xFF after the hardware
\* raised one flag other than OPERR
C12_Witness ==
    /\ last.op = "flash_sector_erase"
    /\ ~OutsideFlash(cfg, last.a1)
    /\ last.ret = 255
    /\ Cardinality(last.raised) = 1
    /\ FLASH_SR_OPERR_Pos \notin last.raised
    /\ last.sr0 = {}

\* C13: on success flash_sector_erase(addr) returns the index of the erased
\* sector, the value of flash_select_sector(addr), second-bank sectors of a
\* dual-bank configuration included
C13_SectorEraseReturnsSectorIndex ==
    (/\ last.op = "flash_sector_erase"
     /\ FLASH_CR_LOCK_Pos \notin last.cr0
     /\ last.ret # 255)
    => last.ret = flash_select_sector(cfg, last.a1)

\* the two components of the lock state
ControlLocked == FLASH_CR_LOCK_Pos \in cr
OptionLocked  == FLASH_OPTCR_OPTLOCK_Pos \in optcr

\* C14: the lock state (control, option-control) is Locked/Locked at first;
\* flash_unlock and flash_lock change only the control component (to
\* Unlocked, to Locked), flash_unlock_opt and flash_lock_opt only the option
\* component, and no erase, program, read or copy operation changes either
C14_LockStateMachine ==
    /\ ControlLocked /\ OptionLocked
    /\ [][/\ last'.op \in {"flash_unlock", "flash_lock"}
             => OptionLocked' = OptionLocked
          /\ last'.op \in {"flash_unlock_opt", "flash_lock_opt"}
             => ControlLocked' = ControlLocked
          /\ last'.op = "flash_unlock" => ~ControlLocked'
          /\ last'.op = "flash_lock" => ControlLocked'
          /\ last'.op = "flash_unlock_opt" => ~OptionLocked'
          /\ last'.op = "flash_lock_opt" => OptionLocked'
          /\ last'.op \notin {"flash_unlock", "flash_lock",
                              "flash_unlock_opt", "flash_lock_opt"}
             => /\ ControlLocked' = ControlLocked
                /\ OptionLocked' = OptionLocked]_vars

\* an erase has run after flash_unlock and flash_unlock_opt and has left both
\* components unlocked
C14_Witness ==
    /\ last.op = "flash_sector_erase"
    /\ last.strt # <<>>
    /\ ~ControlLocked
    /\ ~OptionLocked

\* C15: flash_lock() writes zero to the whole of FLASH_CR and only then sets
\* LOCK: after flash_lock() returns from an unlocked state FLASH_CR holds the
\* lock bit and nothing else, whatever erase or program calls came before
C15_LockLeavesOnlyLockBit ==
    (last.op = "flash_lock" /\ FLASH_CR_LOCK_Pos \notin last.cr0)
    => /\ cr = FLASH_CR_LOCK_Msk
       /\ Len(last.tr) = 2
       /\ last.tr[1] = write_reg_value("CR", {})
       /\ last.tr[2] = set_reg("CR", 1, FLASH_CR_LOCK_Msk, FLASH_CR_LOCK_Pos)

\* flash_lock() has returned after it was called with FLASH_CR unlocked and
\* PG or a mass-erase bit left set by an earlier program or erase call
C15_Witness ==
    /\ last.op = "flash_lock"
    /\ FLASH_CR_LOCK_Pos \notin last.cr0
    /\ last.cr0 \cap (FLASH_CR_PG_Msk \cup FLASH_CR_MER_Msk) # {}
    /\ cr = FLASH_CR_LOCK_Msk

\* C16: every flash_unlock() writes KEY1 and then KEY2 to FLASH_KEYR and
\* afterwards clears PGSERR in FLASH_SR whether it is set or not, so that
\* PGSERR is clear when flash_unlock() returns, also when it was latched
\* before the call
C16_UnlockKeysThenClearsPGSERR ==
    last.op = "flash_unlock"
    => /\ last.tr = << write_reg_value("KEYR", KEY1),
                       write_reg_value("KEYR", KEY2),
                       set_reg("SR", 1, FLASH_SR_PGSERR_Msk,
                               FLASH_SR_PGSERR_Pos) >>
       /\ FLASH_SR_PGSERR_Pos \notin sr

\* flash_unlock() has returned after a call made with PGSERR latched
C16_Witness ==
    /\ last.op = "flash_unlock"
    /\ FLASH_SR_PGSERR_Pos \in last.sr0
    /\ FLASH_SR_PGSERR_Pos \notin sr
    /\ FLASH_CR_LOCK_Pos \notin cr

\* every tracked byte of the sector of addr, addr itself left aside, is erased
RestOfSectorErased(addr) ==
    \A p \in DOMAIN flash :
        (p # addr /\ HwSectorOf(cfg, p) = HwSectorOf(cfg, addr))
        => flash[p] = ErasedByte

\* C17: with FLASH_CR unlocked, a byte V programmed by flash_program_byte at
\* an offset of an erased sector (offset 0 included), the first call after
\* the erase and without hardware error, is what flash_read of that address
\* with size 1 returns
C17_ProgramByteReadBack ==
    [][(/\ last.op = "flash_program_byte"
        /\ last'.op = "flash_read"
        /\ last'.a1 = last.a1
        /\ ~OutsideFlash(cfg, last.a1)
        /\ FLASH_CR_LOCK_Pos \notin last.cr0
        /\ nops = 1
        /\ nfaults = 0
        /\ RestOfSectorErased(last.a1))
       => buffer'[1] = last.a2]_vars

\* a byte programmed at the first address of a sector has been read back
C17_Witness ==
    /\ last.op = "flash_read"
    /\ is_sector_start(cfg, last.a1)
    /\ buffer[1] \in ByteValues \ {0}
    /\ flash[last.a1] = buffer[1]
    /\ RestOfSectorErased(last.a1)
    /\ nfaults = 0

\* every tracked byte of the sector of addr is erased in the image fl
SectorErasedIn(fl, addr) ==
    \A p \in DOMAIN fl :
        HwSectorOf(cfg, p) = HwSectorOf(cfg, addr) => fl[p] = ErasedByte

MassEraseBits == FLASH_CR_MER_Msk \cup FLASH_CR_MER1_Msk

\* C18: flash_sector_erase of an address whose sector is already erased, with
\* no error flag pending and no hardware error, returns a value other than
\* 0xFF and leaves the sector erased; and a second flash_sector_erase of the
\* same address right after one that succeeded, with no mass-erase bit left
\* in FLASH_CR and no hardware error, succeeds as well and leaves the flash
\* content and FLASH_CR as the first left them
C18_SectorEraseIdempotent ==
    [][/\ (/\ last'.op = "flash_sector_erase"
           /\ ~OutsideFlash(cfg, last'.a1)
           /\ SectorErasedIn(flash, last'.a1)
           /\ sr \cap ErrFlags(cfg) = {}
           /\ last'.raised = {})
          => (last'.ret # 255 /\ SectorErasedIn(flash', last'.a1))
       /\ (/\ last.op = "flash_sector_erase"
           /\ last'.op = "flash_sector_erase"
           /\ last'.a1 = last.a1
           /\ last.ret # 255
           /\ last.cr0 \cap MassEraseBits = {}
           /\ last'.raised = {})
          => (last'.ret # 255 /\ flash' = flash /\ cr' = cr)]_vars

\* a second flash_sector_erase of a sector start succeeded on the unlocked
\* device: the first left its width code in FLASH_CR and erased this sector,
\* the only one erased
C18_Witness ==
    /\ last.op = "flash_sector_erase"
    /\ last.ret # 255
    /\ nops = 2
    /\ nfaults = 0
    /\ last.strt # <<>>
    /\ last.erased # {}
    /\ last.cr0 \cap FLASH_CR_PSIZE_Msk # {}
    /\ last.cr0 \cap (MassEraseBits \cup FLASH_CR_PG_Msk \cup FLASH_CR_LOCK_Msk) = {}
    /\ \A p \in DOMAIN flash :
          flash[p] = ErasedByte <=> HwSectorOf(cfg, p) \in last.erased

\* the first addresses of the sectors of configuration c, by api/libflash.h
SectorStarts(c) == {LibflashTable(c)[i][1] : i \in DOMAIN LibflashTable(c)}

\* C19: is_sector_start(addr) is true iff addr is the first address of a
\* sector of the configuration; it is false one below and one above every
\* such address, and false at the sector starts of the other configurations
\* that are not a sector start of this one
C19_IsSectorStartExact ==
    last.op = "is_sector_start"
    => /\ last.ret = 1 <=> last.a1 \in SectorStarts(cfg)
       /\ (last.a1 + 1 \in SectorStarts(cfg) \/ last.a1 - 1 \in SectorStarts(cfg))
          => last.ret = 0
       /\ last.a1 \in AllSectorStarts \ SectorStarts(cfg) => last.ret = 0

\* is_sector_start returned true for the first address of the last sector
C19_Witness ==
    /\ last.op = "is_sector_start"
    /\ last.a1 = LibflashTable(cfg)[LastSector(cfg)][1]
    /\ last.ret = 1

\* is_sector_start returned false for a sector start of another configuration
C19_WitnessForeignStart ==
    /\ last.op = "is_sector_start"
    /\ last.a1 \in AllSectorStarts \ SectorStarts(cfg)
    /\ last.ret = 0

\* C20: flash_select_sector(addr) returns 0xFF for every addr above the end
\* address of the last sector of the configuration (11, 19 or 23)
C20_SelectSectorAboveFlash ==
    (last.op = "flash_select_sector"
     /\ last.a1 > LibflashTable(cfg)[LastSector(cfg)][2])
    => last.ret = 255

\* flash_select_sector returned 0xFF for the address right above the array
C20_Witness ==
    /\ last.op = "flash_select_sector"
    /\ last.a1 = LibflashTable(cfg)[LastSector(cfg)][2] + 1
    /\ last.ret = 255

\* sectors i and j are in the same bank (the second bank starts at sector 12)
SameBank(i, j) == (i >= 12) <=> (j >= 12)

\* in table t of configuration c no sector ends before it starts, and a
\* sector followed by one of the same bank ends right before that one starts
TableContiguous(c, t) ==
    /\ \A i \in DOMAIN t : t[i][1] <= t[i][2]
    /\ \A k \in 1..(Len(SectorChain(c)) - 1) :
          SameBank(SectorChain(c)[k], SectorChain(c)[k + 1])
          => t[SectorChain(c)[k + 1]][1] = t[SectorChain(c)[k]][2] + 1

\* C21: in every configuration the sector tables of flash_regs.h and of
\* api/libflash.h describe sectors with start <= end, each sector of a bank
\* starting right after the end of the previous sector of that bank
C21_SectorTablesContiguous ==
    /\ TableContiguous(cfg, SectorTable(cfg))
    /\ TableContiguous(cfg, LibflashTable(cfg))

\* the ids of the regions named in the set names
IdsOf(names) == {DevId(cfg, dev.wookey, n) : n \in names}

\* the smallest element of a non-empty set of numbers
Smallest(S) == CHOOSE x \in S : \A y \in S : x <= y

\* the ids whose registration a call with devmap is to attempt when the
\* service refuses the regions of refused: the requested ids up to the first
\* refused one
ToAttempt(devmap, refused) ==
    IF IdsOf(devmap.flags \cap refused) = {} THEN IdsOf(devmap.flags)
    ELSE {i \in IdsOf(devmap.flags) : i <= Smallest(IdsOf(devmap.flags \cap refused))}

\* C22: flash_device_early_init registers the requested regions in table
\* order; at the first refusal it returns -1 and attempts no later
\* registration, the handles recorded before it staying in the table; it
\* returns 0 only when every requested registration succeeded; with a null
\* request it returns -1 and attempts nothing
C22_EarlyInitStopsAtFirstFailure ==
    [][last'.op = "flash_device_early_init"
       => /\ last'.a1.null
             => (last'.ret = -1 /\ last'.tr = <<>> /\ dev'.desc = dev.desc)
          /\ ~last'.a1.null
             => /\ {last'.tr[k].id : k \in DOMAIN last'.tr}
                   = ToAttempt(last'.a1, last'.a2)
                /\ \A k \in 1..(Len(last'.tr) - 1) :
                      last'.tr[k].id < last'.tr[k + 1].id /\ last'.tr[k].done
                /\ last'.ret = (IF last'.a1.flags \cap last'.a2 = {} THEN 0 ELSE -1)
                /\ \A i \in DOMAIN dev.desc :
                      dev'.desc[i] =
                         IF i \in ToAttempt(last'.a1, last'.a2) \ IdsOf(last'.a2)
                         THEN Handle(i) ELSE dev.desc[i]]_vars

\* a call failed at its third registration or later: the first handle is in
\* the table and a requested region was not attempted
C22_Witness ==
    /\ last.op = "flash_device_early_init"
    /\ last.ret = -1
    /\ Len(last.tr) >= 3
    /\ dev.desc[last.tr[1].id] # 0
    /\ \E n \in last.a1.flags :
          \A k \in DOMAIN last.tr : last.tr[k].id # DevId(cfg, dev.wookey, n)

\* the ids the service registered in the call that last describes
RegisteredBy(call) == {call.tr[k].id : k \in {j \in DOMAIN call.tr : call.tr[j].done}}

\* C23: after the first flash_device_early_init(request) has returned,
\* flash_is_device_registered(id) is true, for every id of the
\* configuration, iff the handle recorded for id is non-zero, iff the flag of
\* id was set and the service registered it; the call hands sys_init only
\* slots of ids whose flag is set, each at most once
C23_RegisteredIffFlagSetAndMapped ==
    [][/\ (/\ last.op = "flash_device_early_init"
           /\ dev.ncalls = 1
           /\ last'.op = "flash_is_device_registered")
          => /\ last'.ret = 1 <=> dev.desc[last'.a1] # 0
             /\ last'.ret = 1 <=> (/\ last'.a1 \in IdsOf(last.a1.flags)
                                   /\ last'.a1 \in RegisteredBy(last))
       /\ last'.op = "flash_device_early_init"
          => /\ \A k \in DOMAIN last'.tr : last'.tr[k].slot \in IdsOf(last'.a1.flags)
             /\ \A j, k \in DOMAIN last'.tr :
                   last'.tr[j].slot = last'.tr[k].slot => j = k]_vars

\* the first address of the region that device id name stands for; the ids of
\* the main array stand for a window of it
RegionAddresses(name) ==
    CASE name = "CTRL"      -> {\H40023C00}
      [] name = "CTRL2"     -> {\H40023C00}
      [] name = "SYSTEM"    -> {\H1FFF0000}
      [] name = "OTP"       -> {\H1FFF7800}
      [] name = "OPT_BANK1" -> {\H1FFFC000}
      [] name = "OPT_BANK2" -> {\H1FFEC000}
      [] OTHER              -> {\H08000000, \H08008000, \H08080000,
                                \H08100000, \H08108000}

\* C24: flash_device_tab has one descriptor per device id, in the order of
\* t_flash_dev_id, and the descriptor flash_device_early_init hands to the
\* mapping service for id X is that of region X
C24_DescriptorOfEachDeviceId ==
    last.op = "flash_device_early_init"
    => /\ Len(flash_device_tab(cfg, dev.wookey)) = Len(t_flash_dev_id(cfg, dev.wookey))
       /\ \A k \in DOMAIN last.tr :
             last.tr[k].dev.address
                \in RegionAddresses(t_flash_dev_id(cfg, dev.wookey)[last.tr[k].id + 1])

\* C25: flash_get_descriptor(id) returns the handle recorded for id when id
\* is an id of the configuration and 0 when it is out of range; the ids its
\* range test accepts, and the ids flash_device_early_init and
\* flash_is_device_registered use, index a slot of flash_device_desc_tab
C25_DescriptorSlotsInsideTable ==
    /\ last.op = "flash_get_descriptor"
       => IF last.a1 <= LastDevId(cfg, dev.wookey)
          THEN last.a1 < DescTabLen(cfg, dev.wookey) /\ last.ret = dev.desc[last.a1]
          ELSE last.ret = 0
    /\ last.op = "flash_is_device_registered"
       => last.a1 < DescTabLen(cfg, dev.wookey)
    /\ last.op = "flash_device_early_init"
       => \A k \in DOMAIN last.tr : last.tr[k].slot < DescTabLen(cfg, dev.wookey)

\* C29: flash_sector_erase of an address in flash makes its register accesses
\* in this order: the busy flag read, PSIZE set to 2, SER set, the sector
\* number written to SNB, STRT set, the busy flag read, SNB cleared, SER
\* cleared, then the error check on FLASH_SR; when it returns, with the sector
\* number or with 0xFF, SNB and SER are zero in FLASH_CR
C29_SectorEraseStepsAndCleanup ==
    (last.op = "flash_sector_erase" /\ ~OutsideFlash(cfg, last.a1))
    => /\ Len(last.tr) >= 9
       /\ last.tr[1] = read_reg_value("SR")
       /\ last.tr[2] = set_reg("CR", 2, FLASH_CR_PSIZE_Msk, FLASH_CR_PSIZE_Pos)
       /\ last.tr[3] = set_reg("CR", 1, FLASH_CR_SER_Msk, FLASH_CR_SER_Pos)
       /\ \E n \in 0..31 :
             /\ last.tr[4] = set_reg("CR", n, FLASH_CR_SNB_Msk, FLASH_CR_SNB_Pos)
             /\ last.ret \in {n, 255}
       /\ last.tr[5] = set_reg("CR", 1, FLASH_CR_STRT_Msk, FLASH_CR_STRT_Pos)
       /\ last.tr[6] = read_reg_value("SR")
       /\ last.tr[7] = set_reg("CR", 0, FLASH_CR_SNB_Msk, FLASH_CR_SNB_Pos)
       /\ last.tr[8] = set_reg("CR", 0, FLASH_CR_SER_Msk, FLASH_CR_SER_Pos)
       /\ \A k \in 9..Len(last.tr) : last.tr[k][2] = "SR"
       /\ cr \cap (FLASH_CR_SNB_Msk \cup FLASH_CR_SER_Msk) = {}

\* an erase started with SER and a sector number other than 0 in FLASH_CR
\* ended with a hardware error and returned 0xFF
C29_Witness ==
    /\ last.op = "flash_sector_erase"
    /\ last.ret = 255
    /\ last.raised # {}
    /\ Len(last.strt) = 1
    /\ FLASH_CR_SER_Pos \in last.strt[1]
    /\ last.strt[1] \cap FLASH_CR_SNB_Msk # {}
    /\ cr \cap (FLASH_CR_SNB_Msk \cup FLASH_CR_SER_Msk) = {}

\* BSY is set in FLASH_SR
Busy == FLASH_SR_BSY \subseteq sr

\* caller t is in a call
InCall(t) == thr[t].op # "idle"

\* C26: with a caller that goes on and hardware that ends every operation it
\* began, every erase and program call returns; as long as BSY stays set a
\* call in progress makes no step: it does not return and writes no register
C26_CallsReturnOnceBusyClears ==
    /\ InCall(1) ~> ~InCall(1)
    /\ [][(Busy /\ Busy' /\ InCall(1))
          => (thr' = thr /\ cr' = cr /\ last' = last)]_vars

\* a flash_mass_erase that waited for its erase has returned
C26_Witness ==
    /\ last.op = "flash_mass_erase"
    /\ ~InCall(1)
    /\ hw.done.kind = "erase"
    /\ hw.done.call = "flash_mass_erase"
    /\ hw.done.erased # {}

\* caller t stands before a write of a FLASH_CR field or a programming store
BeforeWrite(t) ==
    /\ thr[t].todo # <<>>
    /\ Head(thr[t].todo)[1] \in {"set_reg", "store"}

\* the one caller is in no call, and its last call was made while BSY was set
ReturnedFromCallWhileBusy ==
    /\ ~InCall(1)
    /\ last.op \in EraseOps \cup ProgramOps
    /\ FLASH_SR_BSY \subseteq last.sr0

\* the hardware operation that ended last was begun by the call that
\* returned last
BegunByLastCall ==
    /\ hw.done.seq = nops
    /\ hw.done.call = last.op
    /\ hw.done.kind \in {"erase", "store"}

\* C30: with one call at a time, a caller never stands before a write of a
\* FLASH_CR field (the start bit included) or before a programming store
\* while BSY is set; a call made while BSY is set does what it is for: it
\* begins its hardware operation once BSY is clear, a program call gets to
\* its store unless its erase failed, and flash_sector_erase returns the
\* sector number unless the erase itself raised an error
C30_BusyAtCallIsWaitedOut ==
    /\ \A t \in DOMAIN thr : BeforeWrite(t) => ~Busy
    /\ ReturnedFromCallWhileBusy =>
          /\ \/ BegunByLastCall
             \/ last.op = "flash_sector_erase" /\ OutsideFlash(cfg, last.a1)
             \/ last.op = "flash_bank_erase" /\ last.a1 # 0 /\ ~cfg.dualBank
          /\ (last.op \in ProgramOps /\ hw.done.raised = {})
                => hw.done.kind = "store"
          /\ (last.op = "flash_sector_erase" /\ BegunByLastCall
                /\ hw.done.raised = {})
                => (last.ret # 255 /\ hw.done.erased # {})

\* a flash_sector_erase called while BSY was set has returned the sector
\* number, the sector erased
C30_Witness ==
    /\ ReturnedFromCallWhileBusy
    /\ last.op = "flash_sector_erase"
    /\ last.ret # 255
    /\ BegunByLastCall
    /\ hw.done.erased # {}

\* the program-size code of a program call
WidthCode(op) ==
    CASE op = "flash_program_byte"  -> 0
      [] op = "flash_program_hword" -> 1
      [] op = "flash_program_word"  -> 2
      [] op = "flash_program_dword" -> 3

\* the PSIZE field of a FLASH_CR value
PSIZEOf(crv) == crv \cap FLASH_CR_PSIZE_Msk

\* statement s writes value into the field mask of FLASH_CR
SetsField(s, value, mask, pos) ==
    s = <<"set_reg", "CR", value, mask, pos>>

\* the statements tr[k+1] .. tr[k+6] are: SR read until BSY is clear, PSIZE
\* set to code, PG set, the store to addr, SR read until BSY is clear, the
\* error check
ProgramOrderAt(tr, k, addr, code) ==
    /\ Len(tr) = k + 6
    /\ tr[k + 1][1] = "read" /\ tr[k + 1][2] = "SR"
    /\ SetsField(tr[k + 2], code, FLASH_CR_PSIZE_Msk, FLASH_CR_PSIZE_Pos)
    /\ SetsField(tr[k + 3], 1, FLASH_CR_PG_Msk, FLASH_CR_PG_Pos)
    /\ tr[k + 4][1] = "store" /\ tr[k + 4][2] = addr
    /\ tr[k + 5][1] = "read" /\ tr[k + 5][2] = "SR"
    /\ tr[k + 6] = <<"check", "void">>

\* the first nine statements of tr are those of a sector erase and its
\* error check, PSIZE set to 2 among them
AutoEraseFirst(tr) ==
    /\ Len(tr) >= 9
    /\ tr[1][1] = "read"
    /\ SetsField(tr[2], 2, FLASH_CR_PSIZE_Msk, FLASH_CR_PSIZE_Pos)
    /\ SetsField(tr[3], 1, FLASH_CR_SER_Msk, FLASH_CR_SER_Pos)
    /\ tr[4][1] = "set_reg" /\ tr[4][4] = FLASH_CR_SNB_Msk
    /\ SetsField(tr[5], 1, FLASH_CR_STRT_Msk, FLASH_CR_STRT_Pos)
    /\ tr[6][1] = "read"
    /\ SetsField(tr[7], 0, FLASH_CR_SNB_Msk, FLASH_CR_SNB_Pos)
    /\ SetsField(tr[8], 0, FLASH_CR_SER_Msk, FLASH_CR_SER_Pos)
    /\ tr[9] = <<"check", "auto">>

\* C28: each of the four program calls, FLASH_CR unlocked, makes its
\* statements in one order: the sector erase first exactly when the address
\* is the first byte of a sector, then wait for BSY clear, PSIZE set to the
\* width code, PG set, the store, wait, error check (a failed first erase
\* ends the call).  At the store BSY is clear, PG is set and PSIZE is the
\* width code of the call, after a sector erase that set PSIZE to 2 as well
C28_ProgramOrderAndStoreState ==
    /\ \A t \in DOMAIN thr :
          (thr[t].op \in ProgramOps /\ thr[t].todo # <<>>
             /\ Head(thr[t].todo)[1] = "store")
          => /\ ~Busy
             /\ FLASH_CR_PG_Pos \in cr
             /\ PSIZEOf(cr) = Shl(WidthCode(thr[t].op), FLASH_CR_PSIZE_Pos)
    /\ \A op \in {hw.now, hw.done} :
          (op.kind = "store" /\ op.call \in ProgramOps)
          => /\ FLASH_CR_PG_Pos \in op.cr
             /\ PSIZEOf(op.cr) = Shl(WidthCode(op.call), FLASH_CR_PSIZE_Pos)
    /\ (~InCall(1) /\ last.op \in ProgramOps /\ ~OutsideFlash(cfg, last.a1))
          => IF last.a1 \in SectorStarts(cfg)
             THEN /\ AutoEraseFirst(last.tr)
                  /\ \/ Len(last.tr) = 9 /\ hw.done.raised # {}
                     \/ ProgramOrderAt(last.tr, 9, last.a1, WidthCode(last.op))
             ELSE ProgramOrderAt(last.tr, 0, last.a1, WidthCode(last.op))

\* a flash_program_byte at the first byte of a sector has returned: its
\* store came after the erase that set PSIZE to 2, and was made with PSIZE 0
C28_Witness ==
    /\ ~InCall(1)
    /\ last.op = "flash_program_byte"
    /\ last.a1 \in SectorStarts(cfg)
    /\ Len(last.tr) = 15
    /\ hw.done.kind = "store"
    /\ hw.done.seq = nops
    /\ PSIZEOf(hw.done.cr) = {}
    /\ hw.done.raised = {}

\* the SNB field of a FLASH_CR value
SNBOf(crv) == crv \cap FLASH_CR_SNB_Msk

\* the hardware operation op was begun with the fields that the call that
\* began it writes for itself: a sector erase with SER, PSIZE 2 and the
\* call's sector number, a store with PG and the call's width code
OwnFields(op) ==
    /\ op.kind = "erase" =>
          /\ FLASH_CR_SER_Pos \in op.cr
          /\ PSIZEOf(op.cr) = Shl(2, FLASH_CR_PSIZE_Pos)
          /\ SNBOf(op.cr) = Shl(op.want, FLASH_CR_SNB_Pos) \cap FLASH_CR_SNB_Msk
    /\ op.kind = "store" =>
          /\ FLASH_CR_PG_Pos \in op.cr
          /\ PSIZEOf(op.cr) = Shl(op.want, FLASH_CR_PSIZE_Pos)

\* C27: with two callers of flash_sector_erase and flash_program_byte, a
\* hardware operation begun by a call during which no other call was in
\* progress has the fields its own call wrote, and its erase, when it raises
\* no error, erases the sector of the address it was given and no other.
\* (That calls which overlap can begin an erase of another sector, or a
\* store with another program size, is what C27_Witness and
\* C27_WitnessWrongSize reach.)
C27_OneCallAtATimeKeepsOwnFields ==
    \A op \in {hw.now, hw.done} :
        (op.alone /\ op.call \in {"flash_sector_erase"} \cup ProgramOps)
        => /\ OwnFields(op)
           /\ (op.kind = "erase" /\ op = hw.done /\ op.raised = {})
                 => op.erased = {HwSectorOf(cfg, op.addr)}

\* a flash_sector_erase that overlapped another call began its erase with a
\* sector number it did not write: another sector than the one of its
\* address was erased
C27_Witness ==
    /\ hw.done.kind = "erase"
    /\ hw.done.call = "flash_sector_erase"
    /\ ~hw.done.alone
    /\ ~OwnFields(hw.done)
    /\ hw.done.erased # {}
    /\ HwSectorOf(cfg, hw.done.addr) \notin hw.done.erased

\* a flash_program_byte that overlapped another call made its store with
\* the program size the other call wrote
C27_WitnessWrongSize ==
    /\ hw.done.kind = "store"
    /\ hw.done.call = "flash_program_byte"
    /\ ~hw.done.alone
    /\ FLASH_CR_PG_Pos \in hw.done.cr
    /\ PSIZEOf(hw.done.cr) = Shl(2, FLASH_CR_PSIZE_Pos)

\* the statements tr[k], tr[k+1], tr[k+2] are: STRT set, the wait for BSY
\* clear, and the read of FLASH_SR that opens the error check
StartWaitCheckAt(tr, k) ==
    /\ Len(tr) >= k + 2
    /\ SetsField(tr[k], 1, FLASH_CR_STRT_Msk, FLASH_CR_STRT_Pos)
    /\ tr[k + 1] = <<"read", "SR">>
    /\ tr[k + 2] = <<"read", "SR">>

\* flash_bank_erase was asked for the second bank of a build that has none
NoSuchBank == last.op = "flash_bank_erase" /\ last.a1 # 0 /\ ~cfg.dualBank

\* C31: flash_bank_erase(bank) sets MER for bank 0 and MER1 for another bank,
\* then STRT, waits and checks the error flags; FLASH_CR unlocked, the
\* operation starts with that mass-erase bit set.  In a build without a
\* second bank, a call for another bank than 0 writes no register, starts
\* no operation and changes no flash byte
C31_BankEraseSelectsBankOrGivesUp ==
    [][last'.op = "flash_bank_erase" =>
         IF last'.a1 # 0 /\ ~cfg.dualBank
         THEN /\ cr' = cr
              /\ flash' = flash
              /\ ~WroteCR(last'.tr)
              /\ last'.strt = <<>>
         ELSE /\ Len(last'.tr) >= 5
              /\ IF last'.a1 = 0
                 THEN SetsField(last'.tr[2], 1, FLASH_CR_MER_Msk, FLASH_CR_MER_Pos)
                 ELSE SetsField(last'.tr[2], 1, FLASH_CR_MER1_Msk, FLASH_CR_MER1_Pos)
              /\ StartWaitCheckAt(last'.tr, 3)
              /\ FLASH_CR_LOCK_Pos \notin cr
                    => /\ Len(last'.strt) = 1
                       /\ (IF last'.a1 = 0 THEN FLASH_CR_MER_Msk
                           ELSE FLASH_CR_MER1_Msk) \subseteq last'.strt[1]
                       /\ (IF last'.a1 = 0 THEN FLASH_CR_MER_Msk
                           ELSE FLASH_CR_MER1_Msk) \subseteq cr']_vars

\* flash_bank_erase(1) has returned in a single-bank build, FLASH_CR unlocked
C31_Witness ==
    /\ NoSuchBank
    /\ FLASH_CR_LOCK_Pos \notin last.cr0

\* flash_bank_erase(1) has erased the second bank of a dual-bank build
C31_WitnessSecondBank ==
    /\ last.op = "flash_bank_erase"
    /\ last.a1 # 0
    /\ cfg.dualBank
    /\ last.raised = {}
    /\ 12 \in last.erased

\* every tracked byte of the array fl holds the erased value
AllErased(fl) == \A p \in DOMAIN fl : fl[p] = ErasedByte

\* C32: flash_mass_erase sets MER, in a dual-bank build MER1 as well, and
\* only then STRT, waits and checks the error flags; called with FLASH_CR
\* unlocked, and the hardware raising no error, it leaves every byte of
\* every sector of the configuration erased
C32_MassEraseErasesEveryBank ==
    [][last'.op = "flash_mass_erase" =>
         /\ Len(last'.tr) >= 5
         /\ SetsField(last'.tr[2], 1, FLASH_CR_MER_Msk, FLASH_CR_MER_Pos)
         /\ IF cfg.dualBank
            THEN /\ SetsField(last'.tr[3], 1, FLASH_CR_MER1_Msk, FLASH_CR_MER1_Pos)
                 /\ StartWaitCheckAt(last'.tr, 4)
            ELSE StartWaitCheckAt(last'.tr, 3)
         /\ (FLASH_CR_LOCK_Pos \notin cr /\ last'.raised = {})
               => /\ Len(last'.strt) = 1
                  /\ FLASH_CR_MER_Msk \subseteq last'.strt[1]
                  /\ cfg.dualBank => FLASH_CR_MER1_Msk \subseteq last'.strt[1]
                  /\ last'.erased = DOMAIN LibflashTable(cfg)
                  /\ AllErased(flash')]_vars

\* flash_mass_erase has returned in a dual-bank build, FLASH_CR unlocked and
\* no error raised: a byte of the second bank that was programmed is erased
C32_Witness ==
    /\ last.op = "flash_mass_erase"
    /\ cfg.dualBank
    /\ FLASH_CR_LOCK_Pos \notin last.cr0
    /\ last.raised = {}
    /\ AllErased(flash)
    /\ \E p \in DOMAIN flash : HwSectorOf(cfg, p) >= 12 /\ ImageByte(cfg, p) # ErasedByte

\* the operation-select bits of FLASH_CR
SelectBits ==
    FLASH_CR_PG_Msk \cup FLASH_CR_SER_Msk \cup FLASH_CR_MER_Msk
    \cup FLASH_CR_MER1_Msk

\* the select bits that the hardware operation op should have been begun with
OwnSelect(c, op) ==
    CASE op.kind = "store" -> FLASH_CR_PG_Msk
      [] op.kind = "erase" /\ op.call = "flash_mass_erase" ->
            FLASH_CR_MER_Msk \cup (IF c.dualBank THEN FLASH_CR_MER1_Msk ELSE {})
      [] op.kind = "erase" /\ op.call = "flash_bank_erase" ->
            IF op.addr = 0 THEN FLASH_CR_MER_Msk ELSE FLASH_CR_MER1_Msk
      [] OTHER -> FLASH_CR_SER_Msk

\* C33: with one call at a time, every hardware operation a call begins, by
\* STRT or by a store, is begun with one operation selected in FLASH_CR: PG
\* alone for a store, SER alone for a sector erase, the mass-erase bit or
\* bits of the call alone for a bank or mass erase
C33_OneSelectSettingAtStart ==
    hw.now.kind \in {"erase", "store"}
    => hw.now.cr \cap SelectBits = OwnSelect(cfg, hw.now)

\* C34: flash_copy_sector(dest, src), both addresses in flash, changes no
\* flash byte outside the sector of dest, and erases no other sector
C34_CopyStaysInDestinationSector ==
    [][(/\ last'.op = "flash_copy_sector"
        /\ ~OutsideFlash(cfg, last'.a1)
        /\ ~OutsideFlash(cfg, last'.a2))
       => /\ \A p \in DOMAIN flash :
                HwSectorOf(cfg, p) # HwSectorOf(cfg, last'.a1)
                => flash'[p] = flash[p]
          /\ last'.erased \subseteq {HwSectorOf(cfg, last'.a1)}]_vars

\* the number of bytes a program call stores
WidthOf(op) == 2 ^ WidthCode(op)

\* the tracked bytes that the program call op(addr, ..) stores to
Programmed(op, addr) ==
    {p \in DOMAIN flash : addr <= p /\ p < addr + WidthOf(op)}

\* the step is a program call that follows a program call made with
\* FLASH_CR unlocked that stored to another place of the flash
ProgramAfterProgram ==
    /\ last.op \in ProgramOps
    /\ last'.op \in ProgramOps
    /\ nops' = nops + 1
    /\ FLASH_CR_LOCK_Pos \notin last.cr0
    /\ ~OutsideFlash(cfg, last.a1)
    /\ ~OutsideFlash(cfg, last'.a1)
    /\ \/ last.a1 + WidthOf(last.op) <= last'.a1
       \/ last'.a1 + WidthOf(last'.op) <= last.a1

\* C35: the bytes a program call stored keep their value across a later
\* program call to another, non-overlapping address of the flash, whichever
\* of the two addresses is the lower
C35_ProgrammedValueKept ==
    [][ProgramAfterProgram
       => \A p \in Programmed(last.op, last.a1) : flash'[p] = flash[p]]_vars

\* the last call is a program call to the first byte of a sector whose
\* flash_sector_erase found an error flag at its error check (the ninth
\* statement of the call) and so returned 0xFF
AutoEraseFailed ==
    /\ last.op \in ProgramOps
    /\ last.a1 \in SectorStarts(cfg)
    /\ Len(last.tr) >= 10
    /\ last.tr[9] = <<"read", "SR">>
    /\ last.tr[10][1] = "set_reg" /\ last.tr[10][2] = "SR"

\* C36: a program call to the first byte of a sector whose erase of that
\* sector fails ends there: it makes no write of PG, PG is as it was at the
\* call, and no store is made
C36_FailedAutoEraseStopsProgram ==
    AutoEraseFailed
    => /\ \A k \in DOMAIN last.tr :
             /\ last.tr[k][1] # "store"
             /\ ~SetsField(last.tr[k], 1, FLASH_CR_PG_Msk, FLASH_CR_PG_Pos)
       /\ Len(last.tr) = 10
       /\ last.stores = {}
       /\ (FLASH_CR_PG_Pos \in cr) = (FLASH_CR_PG_Pos \in last.cr0)

\* flash_program_byte to the first byte of a sector has returned, FLASH_CR
\* unlocked, the erase having raised an error flag
C36_Witness ==
    /\ AutoEraseFailed
    /\ last.op = "flash_program_byte"
    /\ FLASH_CR_LOCK_Pos \notin last.cr0
    /\ last.raised # {}
    /\ Len(last.strt) = 1

\* C37: flash_sector_erase(addr) returns a value other than 0xFF only when
\* the call erased the sector holding addr; called with FLASH_CR locked it
\* returns 0xFF
C37_SectorEraseSuccessMeansErased ==
    last.op = "flash_sector_erase"
    => /\ last.ret # 255 => HwSectorOf(cfg, last.a1) \in last.erased
       /\ FLASH_CR_LOCK_Pos \in last.cr0 => last.ret = 255

\* C38: flash_select_sector(addr) returns 0xFF exactly when addr is outside
\* the flash range, below the first sector as well as above the last, and
\* the number of a sector of the configuration for every addr inside
C38_SelectSectorSentinelIffOutside ==
    last.op = "flash_select_sector"
    => /\ (last.ret = 255) = OutsideFlash(cfg, last.a1)
       /\ ~OutsideFlash(cfg, last.a1) => last.ret \in SectorIds(cfg)

=============================================================================
